---- MODULE Spec2Model ----
(***************************************************************************)
(* Model of the research-assistant pipeline: the papers store, the        *)
(* FetcherAgent, the SummariserAgent and the CriticAgent, run by up to    *)
(* NumRuns pipeline runs that share one store.                            *)
(*                                                                         *)
(* Strings that the code builds or inspects are sequences of tokens, so   *)
(* that f"arxiv:{aid}" is a concatenation and startswith is a test on the *)
(* first token.  Free texts (summaries) are sequences of characters, so   *)
(* that len() and strip() are computed.                                   *)
(***************************************************************************)
EXTENDS Integers, Sequences, FiniteSets, TLC

\* ------------------------------------------------------------------ bounds
NumRuns == 2        \* pipeline runs (sequential or concurrent) on one store
NumArxiv == 1       \* distinct entries the arXiv catalog can return
NumDoi == 1         \* distinct DOIs the Semantic Scholar catalog can return

\* ------------------------------------------------------- program constants
min_summary_len == 50
default_top_k == 5      \* TrendAnalyzerAgent(top_k=5)
min_rows == 8           \* if len(rows) < 8
max_clusters == 8       \* k = min(8, int(math.sqrt(len(rows)))) or 2
week_days == 7          \* timedelta(days=7)
days_back == 14         \* PlannerAgent(days_back=14)
default_top_n == 5      \* PlannerAgent(top_n=5)

Runs == 1..NumRuns

\* ----------------------------------------------------------------- strings
Rep(n, c) == [k \in 1..n |-> c]

RECURSIVE LStrip(_)
LStrip(s) == IF s # <<>> /\ Head(s) = " " THEN LStrip(Tail(s)) ELSE s

RECURSIVE RStrip(_)
RStrip(s) ==
    IF s # <<>> /\ s[Len(s)] = " " THEN RStrip(SubSeq(s, 1, Len(s) - 1)) ELSE s

\* str.strip()
Strip(s) == RStrip(LStrip(s))

\* the elements of a sequence
Range(s) == {s[k] : k \in DOMAIN s}

\* sequences over S without repetition, of length at most n
RECURSIVE SeqsUpTo(_, _)
SeqsUpTo(S, n) ==
    IF n = 0 THEN {<<>>}
    ELSE LET shorter == SeqsUpTo(S, n - 1)
         IN  shorter \cup
             {Append(s, x) : s \in {t \in shorter : Len(t) = n - 1},
                             x \in S}

NoRep(s) == \A j, k \in DOMAIN s : s[j] = s[k] => j = k

\* ------------------------------------------------------------- identifiers
\* native arXiv ids, as captured by <id>http://arxiv.org/abs/(.*?)</id>
Aids == {<<"2401.", ToString(n)>> : n \in 1..NumArxiv}
\* DOIs that match _DOI_RE (they begin with "10.")
Dois == {<<"10.", "1000/", ToString(n)>> : n \in 1..NumDoi}
\* a DOI field that does not match _DOI_RE
BadDoi == <<"doi:", "x">>
\* entry without the identifier field
None == <<"None">>

\* f"arxiv:{aid}"
ArxivPaperId(aid) == <<"arxiv:">> \o aid

\* pid.startswith("arxiv:")
StartsWithArxiv(pid) == pid # <<>> /\ Head(pid) = "arxiv:"

\* _DOI_RE.match(doi): anchored at the start, "10." first
DoiReMatch(doi) == doi # <<>> /\ Head(doi) = "10."

PaperIds == {ArxivPaperId(a) : a \in Aids} \cup Dois

\* ------------------------------------------------------------------- state
VARIABLES
    s2_urls,         \* the url Semantic Scholar lists for each of its papers
    papers,          \* the papers table: rows in insertion (created_at) order
    future_ideas,    \* the future_ideas table: rows in insertion order
    pc,              \* pc[r]: the stage pipeline run r is at
    err,             \* err[r]: the exception that ended run r, or "none"
    arxiv_items,     \* arxiv_items[r]: result of _fetch_arxiv
    s2_items,        \* s2_items[r]: result of _fetch_semantic_scholar
    outputs,         \* outputs[r]: GuildState["outputs"], the payload
    pos,             \* pos[r]: index of the next item of the running stage loop
    out,             \* out[r]: the list the running stage accumulates
    handled,         \* handled[r]: what an observer noted of each item handled
    last,            \* last[r]: what that stage met on the item handled last
    summary_writes,  \* summary_writes[id]: _save_summary updates of row id
    score_writes,    \* score_writes[id]: CriticAgent._persist updates of row id
    trends,          \* the trends table: rows in insertion order
    kmeans,          \* the cluster MiniBatchKMeans gives each embedding
    top_k,           \* TrendAnalyzerAgent.top_k
    scored,          \* scored[r]: the sorted list scored of the Trend run
    plans,           \* the plans table: rows in insertion order
    top_n,           \* PlannerAgent.top_n
    chosen,          \* chosen[r]: the ids of chosen of the Planning run, ranked
    plan_text,       \* plan_text[r]: the plan the oracle drafted for run r
    drafted,         \* drafted[r]: the Planning run has called the oracle
    jobs,            \* jobs[r]: the row of the jobs table of the job of run r
    results_table,   \* the results table: rows in insertion order
    reraised,        \* reraised[r]: what pipeline_task raised to the worker
    task,            \* task[r]: how far the pipeline_task of job r has come
    log_q,           \* log_q[r]: the queue given to run_pipeline call r
    attached,        \* the run_pipeline calls whose handler is on the logger
    exiting,         \* the calls between the sentinel put and removeHandler
    seen,            \* seen[r]: the markers the observer has taken off log_q[r]
    chunks,          \* chunks of _recursive_summarise: the tokens of each
    lvl,             \* lvl of _recursive_summarise
    summaries,       \* summaries of the level: how many, and their tokens
    prompt_tokens,   \* the tokens of the prompt of the latest _llm call
    final_calls,     \* the _llm calls whose answer _recursive_summarise returns
    returned         \* _recursive_summarise has returned

vars == <<s2_urls, papers, future_ideas, pc, err, arxiv_items, s2_items,
          outputs, pos, out, handled, last, summary_writes, score_writes,
          trends, kmeans, top_k, scored, plans, top_n, chosen, plan_text,
          drafted, jobs, results_table, reraised, task, log_q, attached,
          exiting, seen, chunks, lvl, summaries, prompt_tokens, final_calls,
          returned>>

trend_vars == <<trends, kmeans, top_k, scored>>
plan_vars == <<plans, top_n, chosen, plan_text, drafted>>
job_vars == <<jobs, results_table, reraised, task>>
log_vars == <<log_q, attached, exiting, seen>>
recur_vars == <<chunks, lvl, summaries, prompt_tokens, final_calls, returned>>

\* what the stages up to the critic leave alone
later_vars == <<trend_vars, plan_vars, job_vars, log_vars, recur_vars>>

fetch_vars == <<s2_urls, arxiv_items, s2_items>>
loop_vars == <<pos, out, handled, last>>
hist_vars == <<summary_writes, score_writes>>

\* ------------------------------------------------------------ papers table
\* datetime.utcnow(), in days: every run happens on this day
Today == 3 * week_days

\* insert(papers).values(id=..., title=..., summary="", embedding="[]"):
\* created_at takes its default, the time of the insert
NewRow(pid) ==
    [id |-> pid, summary |-> <<>>, embedding |-> <<>>,
     score_novelty |-> None, score_method |-> None,
     score_relevance |-> None, critique |-> None, created_at |-> Today]

StoredIds(tbl) == {tbl[k].id : k \in DOMAIN tbl}

\* an INSERT into a table without the primary key
InsertRow_NoKey(tbl, pid) == [ok |-> TRUE, tbl |-> Append(tbl, NewRow(pid))]

\* INSERT OR IGNORE: an id that has a row is passed over without an error
InsertRow_OrIgnore(tbl, pid) ==
    IF pid \in StoredIds(tbl)
    THEN [ok |-> TRUE, tbl |-> tbl]
    ELSE [ok |-> TRUE, tbl |-> Append(tbl, NewRow(pid))]

\* one INSERT: the primary key on papers.id rejects an id that has a row
InsertRow(tbl, pid) ==
    IF pid \in StoredIds(tbl)
    THEN [ok |-> FALSE, tbl |-> tbl]
    ELSE [ok |-> TRUE, tbl |-> Append(tbl, NewRow(pid))]

\* the INSERTs after autocommit: the rows before the failure are kept
RECURSIVE InsertAll_Autocommit(_, _)
InsertAll_Autocommit(tbl, items) ==
    IF items = <<>> THEN [ok |-> TRUE, tbl |-> tbl]
    ELSE LET one == InsertRow(tbl, Head(items).paper_id)
         IN  IF one.ok THEN InsertAll_Autocommit(one.tbl, Tail(items))
             ELSE one

\* the INSERTs of one transaction, in order; the first failure aborts it
RECURSIVE InsertAll(_, _)
InsertAll(tbl, items) ==
    IF items = <<>> THEN [ok |-> TRUE, tbl |-> tbl]
    ELSE LET one == InsertRow(tbl, Head(items).paper_id)
         IN  IF one.ok THEN InsertAll(one.tbl, Tail(items))
             ELSE [ok |-> FALSE, tbl |-> tbl]

\* select(papers.c.id), split by pid.startswith("arxiv:")
existing_ids(tbl) ==
    [arx |-> {pid \in StoredIds(tbl) : StartsWithArxiv(pid)},
     dois |-> {pid \in StoredIds(tbl) : ~StartsWithArxiv(pid)}]

\* ----------------------------------------------------------------- fetcher
\* what a catalog request can end in
HttpOutcomes == {"ok", "http_error", "transport_error"}

\* all subsequences of a list
RECURSIVE SubSeqs(_)
SubSeqs(list) ==
    IF list = <<>> THEN {<<>>}
    ELSE LET rest == SubSeqs(Tail(list))
         IN  rest \cup {<<Head(list)>> \o t : t \in rest}

\* the arXiv catalog, sorted by submittedDate descending: the entries with
\* the captured id, and one entry whose <id> does not match
ArxivCatalog ==
    [n \in 1..NumArxiv |-> [aid |-> <<"2401.", ToString(n)>>]]
    \o <<[aid |-> None]>>

\* a response lists some of the catalog's entries, in the catalog's order
ArxivResponses == SubSeqs(ArxivCatalog)

\* the Semantic Scholar catalog: externalIds.DOI and url of each paper, then
\* a paper without DOI and one whose DOI does not match _DOI_RE
S2Catalog(urls) ==
    [n \in 1..NumDoi |->
        [doi |-> <<"10.", "1000/", ToString(n)>>, url |-> urls[n]]]
    \o <<[doi |-> None, url |-> ""], [doi |-> BadDoi, url |-> ""]>>

S2Urls == [1..NumDoi -> {"", "url"}]

S2Responses(urls) == SubSeqs(S2Catalog(urls))

Item(pid, src, url) ==
    [paper_id |-> pid, source |-> src, pdf_url |-> url, summary |-> <<>>,
     score_novelty |-> None, score_method |-> None,
     score_relevance |-> None, critique |-> None]

\* the loop of _fetch_arxiv over the entries
RECURSIVE ArxivResults(_, _)
ArxivResults(entries, done) ==
    IF entries = <<>> THEN <<>>
    ELSE LET aid == Head(entries).aid
             rest == ArxivResults(Tail(entries), done)
         IN  IF aid = None THEN rest
             ELSE IF aid \in done THEN rest
             ELSE <<Item(ArxivPaperId(aid), "arXiv", "url")>> \o rest

\* the loop of _fetch_semantic_scholar over data
RECURSIVE S2Results(_, _)
S2Results(data, done) ==
    IF data = <<>> THEN <<>>
    ELSE LET doi == Head(data).doi
             rest == S2Results(Tail(data), done)
         IN  IF doi = None \/ doi \in done \/ ~DoiReMatch(doi) THEN rest
             ELSE <<Item(doi, "Semantic Scholar", Head(data).url)>> \o rest

\* position of the first item of items with this paper_id, 0 if none
RECURSIVE IndexOf(_, _, _)
IndexOf(items, pid, k) ==
    IF k > Len(items) THEN 0
    ELSE IF items[k].paper_id = pid THEN k
    ELSE IndexOf(items, pid, k + 1)

\* {i["paper_id"]: i for i in arxiv_items}: the key keeps the place of its
\* first occurrence and the value of its last
RECURSIVE DictOf(_, _)
DictOf(items, acc) ==
    IF items = <<>> THEN acc
    ELSE LET it == Head(items)
             at == IndexOf(acc, it.paper_id, 1)
         IN  DictOf(Tail(items),
                    IF at = 0 THEN Append(acc, it)
                    ELSE [acc EXCEPT ![at] = it])

\* combined.setdefault(item["paper_id"], item) for each item
RECURSIVE SetDefaultAll(_, _)
SetDefaultAll(acc, items) ==
    IF items = <<>> THEN acc
    ELSE LET it == Head(items)
         IN  SetDefaultAll(IF IndexOf(acc, it.paper_id, 1) = 0
                           THEN Append(acc, it) ELSE acc,
                           Tail(items))

\* the merge with the Semantic Scholar record overwriting the arXiv one
Merge_S2Wins(arxiv, s2) == DictOf(arxiv \o s2, <<>>)

\* list(combined.values())
Merge(arxiv, s2) == SetDefaultAll(DictOf(arxiv, <<>>), s2)

\* the graph with an edge from summarise past the critic
Edge_SkipCritic(node) ==
    CASE node = "fetch" -> "summarise"
      [] node = "summarise" -> "trend"
      [] node = "critic" -> "trend"
      [] node = "trend" -> "planner"
      [] node = "planner" -> "done"

\* add_edge(a, b): the node entered when node a returns; the finish point
\* leads out of the graph
Edge(node) ==
    CASE node = "fetch" -> "summarise"
      [] node = "summarise" -> "critic"
      [] node = "critic" -> "trend"
      [] node = "trend" -> "planner"
      [] node = "planner" -> "done"

Fail(r, exc) ==
    /\ pc' = [pc EXCEPT ![r] = "failed"]
    /\ err' = [err EXCEPT ![r] = exc]

\* FetcherAgent._fetch_arxiv: the request, then the filter on existing ids
fetch_arxiv(r) ==
    /\ UNCHANGED later_vars
    /\ pc[r] = "fetch_arxiv"
    /\ \E http \in HttpOutcomes :
         IF http # "ok"
         THEN /\ Fail(r, http)
              /\ UNCHANGED fetch_vars
         ELSE LET done == existing_ids(papers).arx
              IN  \E results \in {ArxivResults(resp, done) :
                                     resp \in ArxivResponses} :
                      /\ arxiv_items' = [arxiv_items EXCEPT ![r] = results]
                      /\ pc' = [pc EXCEPT ![r] = "fetch_s2"]
                      /\ UNCHANGED <<err, s2_urls, s2_items>>
    /\ UNCHANGED <<papers, future_ideas, outputs, loop_vars, hist_vars>>

\* FetcherAgent._fetch_semantic_scholar: only HTTPError is caught
fetch_semantic_scholar(r) ==
    /\ UNCHANGED later_vars
    /\ pc[r] = "fetch_s2"
    /\ \E http \in HttpOutcomes :
         CASE http = "transport_error" ->
                /\ Fail(r, http)
                /\ UNCHANGED fetch_vars
           [] http = "http_error" ->
                /\ s2_items' = [s2_items EXCEPT ![r] = <<>>]
                /\ pc' = [pc EXCEPT ![r] = "persist"]
                /\ UNCHANGED <<err, s2_urls, arxiv_items>>
           [] OTHER ->
                LET done == existing_ids(papers).dois
                IN  \E results \in {S2Results(data, done) :
                                       data \in S2Responses(s2_urls)} :
                        /\ s2_items' = [s2_items EXCEPT ![r] = results]
                        /\ pc' = [pc EXCEPT ![r] = "persist"]
                        /\ UNCHANGED <<err, s2_urls, arxiv_items>>
    /\ UNCHANGED <<papers, future_ideas, outputs, loop_vars, hist_vars>>

\* _persist without the transaction: the rows inserted before the rejected
\* INSERT stay
persist_Autocommit(r) ==
    /\ UNCHANGED later_vars
    /\ pc[r] = "persist"
    /\ LET new_items == Merge(arxiv_items[r], s2_items[r])
           res == InsertAll_Autocommit(papers, new_items)
       IN  /\ papers' = res.tbl
           /\ IF res.ok
              THEN /\ outputs' = [outputs EXCEPT ![r] = new_items]
                   /\ pc' = [pc EXCEPT ![r] = Edge("fetch")]
                   /\ pos' = [pos EXCEPT ![r] = 1]
                   /\ out' = [out EXCEPT ![r] = <<>>]
                   /\ UNCHANGED err
              ELSE /\ Fail(r, "IntegrityError")
                   /\ UNCHANGED <<outputs, pos, out>>
    /\ UNCHANGED <<future_ideas, fetch_vars, handled, last, hist_vars>>

\* FetcherAgent.run after the two queries: merge, _persist, return.
\* _persist inserts every item in one transaction; a rejected INSERT raises
\* IntegrityError and the transaction is rolled back.
persist(r) ==
    /\ UNCHANGED later_vars
    /\ pc[r] = "persist"
    /\ LET new_items == Merge(arxiv_items[r], s2_items[r])
           res == InsertAll(papers, new_items)
       IN  IF res.ok
           THEN /\ papers' = res.tbl
                /\ outputs' = [outputs EXCEPT ![r] = new_items]
                /\ pc' = [pc EXCEPT ![r] = Edge("fetch")]
                /\ pos' = [pos EXCEPT ![r] = 1]
                /\ out' = [out EXCEPT ![r] = <<>>]
                /\ UNCHANGED err
           ELSE /\ Fail(r, "IntegrityError")
                /\ UNCHANGED <<papers, outputs, pos, out>>
    /\ UNCHANGED <<future_ideas, fetch_vars, handled, last, hist_vars>>

\* -------------------------------------------------------------- summariser
\* Python truthiness of an Optional[str]
Truthy(x) == x # None /\ x # <<>>

\* a or b
Or(a, b) == IF Truthy(a) THEN a ELSE b

\* a node that hands on what its stage returned
PassThrough_Returned(ret, state) == ret

\* (stage.run(None, {}))[0] or state: the update a trend or planner node
\* returns, by its outputs
PassThrough(ret, state) == Or(ret, state)

\* an oracle call that raises instead of answering
Raise == <<"raise">>

\* raw message contents the oracle can answer with
OracleContents ==
    {<<" ">>, Rep(min_summary_len - 1, "s"), Rep(min_summary_len, "L")}

FullText == Rep(2, "t")
Abstract == Rep(2, "a")
TitleGuess == Rep(2, "g")
IdeasText == Rep(1, "i")

\* _llm: the stripped content of the answer
llm(content) == Strip(content)

\* what the outside world does while one item is summarised: the results of
\* _download_pdf, _pdf_text, _recursive_summarise, _fetch_abstract,
\* _llm_title_summary, _llm(fallback_txt) and _ideas_from_llm
Env(dl, tx, sm, ab, gu, fi, ide) ==
    [download |-> dl, text |-> tx, summarise |-> sm, abstract |-> ab,
     guess |-> gu, final |-> fi, ideas |-> ide]

\* the cases in which the PDF gives text: the oracle answers or raises
TextEnvs ==
    {Env("pdf", FullText, sm, None, None, Raise, ide) :
        sm \in OracleContents, ide \in {None, IdeasText}}
    \cup {Env("pdf", FullText, Raise, None, None, Raise, None)}

\* the cases in which it gives none: the two fallback lookups run
NoTextEnvs ==
    {Env(d[1], d[2], Raise, ab, gu, fi, None) :
        d \in {<<"failed", None>>, <<"not_pdf", None>>, <<"pdf", None>>,
               <<"pdf", <<>> >>},
        ab \in {None, Abstract}, gu \in {None, TitleGuess},
        fi \in OracleContents \cup {Raise}}

SummEnvs == TextEnvs \cup NoTextEnvs

\* the PDF step: full_text, or None
PdfText(p, env) ==
    IF p.pdf_url = "" THEN None
    ELSE IF env.download # "pdf" THEN None
    ELSE env.text

\* why an item has no document text
DocOutcome(p, env) ==
    IF p.pdf_url = "" THEN "no_url"
    ELSE IF env.download = "failed" THEN "download_failed"
    ELSE IF env.download = "not_pdf" THEN "not_pdf"
    ELSE IF env.text = None THEN "parse_error"
    ELSE IF env.text = <<>> THEN "empty_text"
    ELSE "text"

\* the iteration with an item without usable text raising instead of being
\* passed over
SummariseItem_SkipRaises(p, env) ==
    LET full_text == PdfText(p, env)
        has_text == Truthy(full_text)
        answer == IF has_text THEN env.summarise ELSE Raise
    IN  IF answer = Raise
        THEN [kind |-> "raised", summary |-> None,
              basis |-> IF has_text THEN full_text ELSE None, ideas |-> None]
        ELSE [kind |-> "saved", summary |-> llm(answer), basis |-> full_text,
              ideas |-> env.ideas]

\* one iteration of the loop of SummariserAgent.run, up to the writes.
\* The two fallback threads store their results with globals().update, in
\* the module's globals, which nothing reads: the locals abs_res and llm_res
\* of run keep the None they were given.
SummariseItem(p, env) ==
    LET full_text == PdfText(p, env)
        has_text == Truthy(full_text)
        abs_res == None
        llm_res == None
        fallback_txt == Or(llm_res, abs_res)
        answer == IF has_text THEN env.summarise ELSE env.final
        prompt == IF has_text THEN full_text ELSE fallback_txt
    IN  IF ~has_text /\ ~Truthy(fallback_txt)
        THEN [kind |-> "skipped", summary |-> None, basis |-> None,
              ideas |-> None]
        ELSE IF answer = Raise
        THEN [kind |-> "raised", summary |-> None, basis |-> prompt,
              ideas |-> None]
        ELSE [kind |-> "saved", summary |-> llm(answer), basis |-> prompt,
              ideas |-> env.ideas]

\* an update that appends the text to what the row holds
save_summary_Append(tbl, pid, summary) ==
    [k \in DOMAIN tbl |->
        IF tbl[k].id = pid
        THEN [tbl[k] EXCEPT !.summary = tbl[k].summary \o summary]
        ELSE tbl[k]]

\* update(papers).where(papers.c.id == pid).values(summary=summary)
save_summary(tbl, pid, summary) ==
    [k \in DOMAIN tbl |->
        IF tbl[k].id = pid THEN [tbl[k] EXCEPT !.summary = summary]
        ELSE tbl[k]]

Bump(f, pid) == [f EXCEPT ![pid] = @ + 1]

\* what an observer of the stage notes about the item just handled
Seen(p, env) ==
    LET ran_fallback == ~Truthy(PdfText(p, env))
        res == SummariseItem(p, env)
    IN  [id |-> p.paper_id, doc |-> DocOutcome(p, env),
         abstract |-> IF ran_fallback THEN env.abstract ELSE None,
         guess |-> IF ran_fallback THEN env.guess ELSE None,
         kind |-> res.kind, basis |-> res.basis]

\* the entry of the observer's log for that item
Noted(p, env) ==
    [id |-> p.paper_id, doc |-> DocOutcome(p, env),
     kind |-> SummariseItem(p, env).kind]

\* the effect of one iteration of the loop of SummariserAgent.run, res
\* being what the iteration came to
SummStep(r, res) ==
    LET p == outputs[r][pos[r]]
        pid == p.paper_id
    IN  CASE res.kind = "raised" ->
               /\ Fail(r, "OracleError")
               /\ UNCHANGED <<papers, future_ideas, pos, out, summary_writes>>
          [] res.kind = "skipped" ->
               /\ pos' = [pos EXCEPT ![r] = @ + 1]
               /\ UNCHANGED <<papers, future_ideas, out, pc, err,
                              summary_writes>>
          [] OTHER ->
               /\ future_ideas' =
                    IF Truthy(res.ideas)
                    THEN Append(future_ideas, [paper_id |-> pid])
                    ELSE future_ideas
               /\ papers' = save_summary(papers, pid, res.summary)
               /\ summary_writes' =
                    IF pid \in StoredIds(papers)
                    THEN Bump(summary_writes, pid)
                    ELSE summary_writes
               /\ out' = [out EXCEPT ![r] =
                            Append(@, [p EXCEPT !.summary = res.summary])]
               /\ pos' = [pos EXCEPT ![r] = @ + 1]
               /\ UNCHANGED <<pc, err>>

\* SummariserAgent.run: one item of papers_in
summarise_item(r) ==
    /\ UNCHANGED later_vars
    /\ pc[r] = "summarise"
    /\ pos[r] <= Len(outputs[r])
    /\ \E res \in {SummariseItem(outputs[r][pos[r]], env) :
                      env \in SummEnvs} : SummStep(r, res)
    /\ UNCHANGED <<fetch_vars, outputs, handled, last, score_writes>>

\* the same step, with what the observer notes of it
summarise_item_observed(r) ==
    /\ UNCHANGED later_vars
    /\ pc[r] = "summarise"
    /\ pos[r] <= Len(outputs[r])
    /\ \E env \in SummEnvs :
         /\ SummStep(r, SummariseItem(outputs[r][pos[r]], env))
         /\ last' = [last EXCEPT ![r] = Seen(outputs[r][pos[r]], env)]
         /\ handled' = [handled EXCEPT ![r] =
                          Append(@, Noted(outputs[r][pos[r]], env))]
    /\ UNCHANGED <<fetch_vars, outputs, score_writes>>

\* SummariserAgent.run returns out; the summarise node stores it as outputs
summarise_return(r) ==
    /\ UNCHANGED later_vars
    /\ pc[r] = "summarise"
    /\ pos[r] > Len(outputs[r])
    /\ outputs' = [outputs EXCEPT ![r] = out[r]]
    /\ out' = [out EXCEPT ![r] = <<>>]
    /\ pos' = [pos EXCEPT ![r] = 1]
    /\ pc' = [pc EXCEPT ![r] = Edge("summarise")]
    /\ UNCHANGED <<papers, future_ideas, err, fetch_vars, handled, last,
                   hist_vars>>

\* ------------------------------------------------------------------ critic
ReviewKeys == {"novelty", "methodology", "relevance", "critique"}

\* a JSON integer, and str() of a JSON value
JInt(n) == <<"int", n>>
JStr(t) == <<"str", t>>
PyStr(v) == IF v[1] = "int" THEN JStr(ToString(v[2])) ELSE v

FullReview ==
    [novelty |-> JInt(7), methodology |-> JInt(5), relevance |-> JInt(8),
     critique |-> JStr("one concise paragraph")]

\* what _review returns: None (the call or json.loads raised), or the object
ReviewOutcomes ==
    {[parsed |-> FALSE, obj |-> <<>>],
     [parsed |-> TRUE, obj |-> <<>>],
     [parsed |-> TRUE, obj |-> [k \in ReviewKeys \ {"critique"} |-> FullReview[k]]],
     [parsed |-> TRUE, obj |-> FullReview]}

\* not review
NoReview(rv) == ~rv.parsed \/ DOMAIN rv.obj = {}

\* update(papers).where(papers.c.id == pid).values(score_novelty=..., ...)
critic_persist(tbl, pid, rv) ==
    [k \in DOMAIN tbl |->
        IF tbl[k].id = pid
        THEN [tbl[k] EXCEPT !.score_novelty = PyStr(rv["novelty"]),
                            !.score_method = PyStr(rv["methodology"]),
                            !.score_relevance = PyStr(rv["relevance"]),
                            !.critique = rv["critique"]]
        ELSE tbl[k]]

\* a test that lets every summary through
TooShort_Never(summ) == FALSE

\* len(summ) < self._min_len
TooShort(summ) == Len(summ) < min_summary_len

\* one iteration of the loop of CriticAgent.run, rv being what _review
\* returns if it is called
CriticStep(r, rv) ==
         LET p == outputs[r][pos[r]]
             pid == p.paper_id
             short == TooShort(p.summary)
         IN  /\ (short => ~rv.parsed)
             /\ CASE short \/ NoReview(rv) ->
                      /\ pos' = [pos EXCEPT ![r] = @ + 1]
                      /\ UNCHANGED <<papers, out, pc, err, score_writes>>
                  [] ~(short \/ NoReview(rv))
                       /\ ~(ReviewKeys \subseteq DOMAIN rv.obj) ->
                      /\ Fail(r, "KeyError")
                      /\ UNCHANGED <<papers, out, pos, score_writes>>
                  [] OTHER ->
                      /\ out' = [out EXCEPT ![r] = Append(@,
                           [p EXCEPT
                              !.score_novelty = PyStr(rv.obj["novelty"]),
                              !.score_method = PyStr(rv.obj["methodology"]),
                              !.score_relevance = PyStr(rv.obj["relevance"]),
                              !.critique = rv.obj["critique"]])]
                      /\ papers' = critic_persist(papers, pid, rv.obj)
                      /\ score_writes' =
                           IF pid \in StoredIds(papers)
                           THEN Bump(score_writes, pid)
                           ELSE score_writes
                      /\ pos' = [pos EXCEPT ![r] = @ + 1]
                      /\ UNCHANGED <<pc, err>>

\* CriticAgent.run: one item of papers_in
critic_item(r) ==
    /\ UNCHANGED later_vars
    /\ pc[r] = "critic"
    /\ pos[r] <= Len(outputs[r])
    /\ \E rv \in ReviewOutcomes : CriticStep(r, rv)
    /\ UNCHANGED <<future_ideas, fetch_vars, outputs, handled, last,
                   summary_writes>>

\* CriticAgent.run returns outbound; the critic node stores it as outputs
critic_return(r) ==
    /\ UNCHANGED later_vars
    /\ pc[r] = "critic"
    /\ pos[r] > Len(outputs[r])
    /\ outputs' = [outputs EXCEPT ![r] = out[r]]
    /\ out' = [out EXCEPT ![r] = <<>>]
    /\ pos' = [pos EXCEPT ![r] = 1]
    /\ pc' = [pc EXCEPT ![r] = Edge("critic")]
    /\ UNCHANGED <<papers, future_ideas, err, fetch_vars, handled, last,
                   hist_vars>>

\* ------------------------------------------------------------ orchestrator
\* the stages at which a run has ended
Ended == {"failed", "trend", "done"}

\* ResearchGuildGraph.run: the graph is entered at the fetch node.  Runs are
\* started one after the other: run r once run r - 1 has ended.  The state
\* of a run is a fresh GuildState and the agents' locals: what an earlier
\* run held is gone, only how it ended is kept.
run(r) ==
    /\ UNCHANGED later_vars
    /\ pc[r] = "idle"
    /\ r > 1 => pc[r - 1] \in Ended
    /\ pc' = [pc EXCEPT ![r] = "fetch_arxiv"]
    /\ arxiv_items' = [q \in Runs |-> <<>>]
    /\ s2_items' = [q \in Runs |-> <<>>]
    /\ outputs' = [q \in Runs |-> <<>>]
    /\ out' = [q \in Runs |-> <<>>]
    /\ pos' = [q \in Runs |-> 1]
    /\ UNCHANGED <<s2_urls, papers, future_ideas, err, handled, last,
                   hist_vars>>

\* ----------------------------------------------------------- specifications
NoLast ==
    [id |-> None, doc |-> "none", abstract |-> None, guess |-> None,
     kind |-> "none", basis |-> None]

\* no Planning run yet, no job queued, no log queue handed out
NoPlanner ==
    /\ plans = <<>>
    /\ top_n = default_top_n
    /\ chosen = [r \in Runs |-> <<>>]
    /\ plan_text = [r \in Runs |-> None]
    /\ drafted = [r \in Runs |-> FALSE]

NoJobs ==
    /\ jobs = [r \in Runs |-> [status |-> "none", error |-> None]]
    /\ results_table = <<>>
    /\ reraised = [r \in Runs |-> "none"]
    /\ task = [r \in Runs |-> "none"]

NoLogs ==
    /\ log_q = [r \in Runs |-> <<>>]
    /\ attached = {}
    /\ exiting = {}
    /\ seen = [r \in Runs |-> 0]

\* _recursive_summarise is not being called
NoRecursion ==
    /\ chunks = <<>>
    /\ lvl = 0
    /\ summaries = [n |-> 0, tokens |-> 0]
    /\ prompt_tokens = 0
    /\ final_calls = 0
    /\ returned = FALSE

\* the run-local state of a run that has not fetched yet
InitLocals ==
    /\ NoPlanner
    /\ NoJobs
    /\ NoLogs
    /\ NoRecursion
    /\ err = [r \in Runs |-> "none"]
    /\ pos = [r \in Runs |-> 1]
    /\ out = [r \in Runs |-> <<>>]
    /\ handled = [r \in Runs |-> <<>>]
    /\ last = [r \in Runs |-> NoLast]
    /\ summary_writes = [pid \in PaperIds |-> 0]
    /\ score_writes = [pid \in PaperIds |-> 0]
    /\ scored = [r \in Runs |-> <<>>]
    /\ trends = <<>>
    /\ kmeans = <<>>
    /\ top_k = default_top_k

\* Semantic Scholar lists a url for every other paper
InitRuns(stage) ==
    /\ s2_urls = [n \in 1..NumDoi |-> IF n % 2 = 1 THEN "url" ELSE ""]
    /\ papers = <<>>
    /\ future_ideas = <<>>
    /\ pc = [r \in Runs |-> stage]
    /\ arxiv_items = [r \in Runs |-> <<>>]
    /\ s2_items = [r \in Runs |-> <<>>]
    /\ outputs = [r \in Runs |-> <<>>]
    /\ InitLocals

\* Pipeline runs on one store, one after the other.
Init == InitRuns("idle")

Next ==
    \E r \in Runs :
        \/ run(r)
        \/ fetch_arxiv(r)
        \/ fetch_semantic_scholar(r)
        \/ persist(r)
        \/ summarise_item(r)
        \/ summarise_return(r)
        \/ critic_item(r)
        \/ critic_return(r)

Spec == Init /\ [][Next]_vars

\* Fetch runs on one store, in any interleaving.
InitFetch == InitRuns("fetch_arxiv")

NextFetch ==
    \E r \in Runs :
        \/ fetch_arxiv(r)
        \/ fetch_semantic_scholar(r)
        \/ persist(r)

SpecFetch == InitFetch /\ [][NextFetch]_vars

\* only run 1 is at stage, the others have not started
OnlyRun1(stage) == [r \in Runs |-> IF r = 1 THEN stage ELSE "idle"]
OfRun1(x) == [r \in Runs |-> IF r = 1 THEN x ELSE <<>>]

\* The Summarization stage of one run, on the payload a fetch from an empty
\* store hands it, with an observer of every item.
InitSumm ==
    /\ s2_urls \in S2Urls
    /\ arxiv_items \in
         {OfRun1(ArxivResults(resp, {})) : resp \in ArxivResponses}
    /\ s2_items \in
         {OfRun1(S2Results(data, {})) : data \in S2Responses(s2_urls)}
    /\ outputs = OfRun1(Merge(arxiv_items[1], s2_items[1]))
    /\ papers = InsertAll(<<>>, outputs[1]).tbl
    /\ future_ideas = <<>>
    /\ pc = OnlyRun1("summarise")
    /\ InitLocals

NextSumm ==
    \E r \in Runs :
        \/ summarise_item_observed(r)
        \/ summarise_return(r)

SpecSumm == InitSumm /\ [][NextSumm]_vars

\* The merge step of FetcherAgent.run on any two lists of items, also lists
\* that name the same paper_id.
MaxList == 2

MergeIds == {<<"id", ToString(n)>> : n \in 1..(MaxList + 1)}

InitMerge ==
    /\ s2_urls = [n \in 1..NumDoi |-> "url"]
    /\ arxiv_items \in
         {OfRun1(l) : l \in SeqsUpTo({Item(pid, "arXiv", "url") :
                                        pid \in MergeIds}, MaxList)}
    /\ s2_items \in
         {OfRun1(l) : l \in SeqsUpTo({Item(pid, "Semantic Scholar", "") :
                                        pid \in MergeIds}, MaxList)}
    /\ outputs = OfRun1(<<>>)
    /\ papers = <<>>
    /\ future_ideas = <<>>
    /\ pc = OnlyRun1("persist")
    /\ InitLocals

NextMerge == \E r \in Runs : persist(r)

SpecMerge == InitMerge /\ [][NextMerge]_vars

\* ------------------------------------------------------------------ claims
PaperIdsOf(items) == {items[k].paper_id : k \in DOMAIN items}

\* the payload FetcherAgent.run of run r builds from its two results
Batch(r) == Merge(arxiv_items[r], s2_items[r])

\* the row of the papers table with this id
RowOf(pid) == papers[CHOOSE k \in DOMAIN papers : papers[k].id = pid]

\* C1: after any fetch runs on one store, sequential or interleaved, no two
\* rows of the papers table share an id, so fetching the same entry twice
\* leaves one row for it.
C1_NoTwoRowsShareAnId ==
    \A j, k \in DOMAIN papers : papers[j].id = papers[k].id => j = k

\* two fetch runs got the same entry, both have ended, the entry has a row
C1_Witness ==
    \E q, r \in Runs :
        /\ q # r
        /\ pc[q] \in {"summarise", "failed"}
        /\ pc[r] \in {"summarise", "failed"}
        /\ \E pid \in PaperIdsOf(Batch(q)) \cap PaperIdsOf(Batch(r)) :
               pid \in StoredIds(papers)

\* C2: each catalog query yields as new only entries whose id had no row when
\* the existing ids were loaded, so FetcherAgent.run returns no item whose
\* record is already persisted.
C2_OnlyNewItemsAreFetched ==
    [][\A r \in Runs :
          /\ (pc[r] = "fetch_arxiv" /\ pc'[r] = "fetch_s2") =>
                PaperIdsOf(arxiv_items'[r]) \cap StoredIds(papers) = {}
          /\ (pc[r] = "fetch_s2" /\ pc'[r] = "persist") =>
                PaperIdsOf(s2_items'[r]) \cap StoredIds(papers) = {}]_vars

\* C3: fetch persistence never fails with a duplicate-key error: an item
\* that already has a row is passed over and the run goes on.
C3_NoDuplicateKeyFailure == \A r \in Runs : err[r] # "IntegrityError"

\* C4: over all pipeline runs on one store, also a run after a failed one,
\* the summary of each id is persisted at most once and its scores are
\* persisted at most once.
C4_WorkDoneAtMostOnce ==
    \A pid \in PaperIds : summary_writes[pid] <= 1 /\ score_writes[pid] <= 1

\* a run failed in the Summarization stage after it had saved a summary, and
\* a later run fetched that entry again and has ended
C4_Witness ==
    \E q, r \in Runs :
        /\ q < r
        /\ pc[q] = "failed" /\ err[q] = "OracleError"
        /\ pc[r] \in Ended
        /\ \E pid \in PaperIdsOf(Batch(r)) : summary_writes[pid] = 1

\* C5: a failed query of either catalog does not make the Fetch stage raise.
C5_CatalogFailureIsNotFatal ==
    \A r \in Runs : err[r] \notin {"http_error", "transport_error"}

\* C6: an id that both catalogs produce in one fetch call is once in the
\* merged list, and the record kept for it is the arXiv one.
C6_FirstCatalogWins ==
    \A r \in Runs :
        (pc[r] = "summarise" /\ pos[r] = 1) =>
            /\ \A j, k \in DOMAIN outputs[r] :
                   outputs[r][j].paper_id = outputs[r][k].paper_id => j = k
            /\ PaperIdsOf(outputs[r]) =
                   PaperIdsOf(arxiv_items[r]) \cup PaperIdsOf(s2_items[r])
            /\ \A k \in DOMAIN outputs[r] :
                   outputs[r][k].paper_id \in PaperIdsOf(arxiv_items[r]) =>
                       outputs[r][k].source = "arXiv"

\* a merge of two lists that name the same id has been done
C6_Witness ==
    \E r \in Runs :
        /\ pc[r] = "summarise"
        /\ PaperIdsOf(arxiv_items[r]) \cap PaperIdsOf(s2_items[r]) # {}

\* C7: for an item without document text the summary is based on the
\* catalog abstract whenever the abstract lookup gave text, and on the title
\* guess only when it gave none.
C7_AbstractBeforeTitleGuess ==
    \A r \in Runs :
        (last[r].doc \notin {"none", "text"}) =>
            /\ Truthy(last[r].abstract) => last[r].basis = last[r].abstract
            /\ (~Truthy(last[r].abstract) /\ Truthy(last[r].guess)) =>
                   last[r].basis = last[r].guess

\* C8: an item without document text is passed over only when both fallback
\* lookups gave nothing.
C8_SkippedOnlyWhenBothLookupsFail ==
    \A r \in Runs :
        last[r].kind = "skipped" =>
            ~Truthy(last[r].abstract) /\ ~Truthy(last[r].guess)

\* C9: every item the Summarization stage returns carries a non-empty
\* summary, which is the summary of its row, and the row of an item it does
\* not return has no summary.
C9_ReturnedItemsCarryTheirSummary ==
    \A r \in Runs :
        pc[r] = "critic" =>
            /\ \A k \in DOMAIN outputs[r] :
                   /\ outputs[r][k].summary # <<>>
                   /\ RowOf(outputs[r][k].paper_id).summary
                          = outputs[r][k].summary
            /\ \A pid \in PaperIdsOf(Batch(r)) \ PaperIdsOf(outputs[r]) :
                   RowOf(pid).summary = <<>>

\* the sub-list of the log with the items that were saved
RECURSIVE SavedIds(_)
SavedIds(log) ==
    IF log = <<>> THEN <<>>
    ELSE (IF Head(log).kind = "saved" THEN <<Head(log).id>> ELSE <<>>)
         \o SavedIds(Tail(log))

\* C10: an item whose document fetch or text extraction fails, or whose
\* fallbacks are exhausted, does not end the batch: the stage ends early only
\* on an oracle call that raised, and when it returns it has handled every
\* item of the batch and returns the ones it saved.
C10_ItemFailureDoesNotEndBatch ==
    \A r \in Runs :
        /\ pc[r] = "failed" => last[r].basis # None
        /\ pc[r] = "critic" =>
              /\ [k \in DOMAIN handled[r] |-> handled[r][k].id]
                     = [k \in DOMAIN Batch(r) |-> Batch(r)[k].paper_id]
              /\ [k \in DOMAIN outputs[r] |-> outputs[r][k].paper_id]
                     = SavedIds(handled[r])

\* the stage has returned a later item after an earlier one was passed over
C10_Witness ==
    \E r \in Runs :
        /\ pc[r] = "critic"
        /\ \E j, k \in DOMAIN handled[r] :
               /\ j < k
               /\ handled[r][j].kind = "skipped"
               /\ handled[r][j].doc = "download_failed"
               /\ handled[r][k].kind = "saved"


\* C11: a failure of an oracle call is caught inside the stage that made the
\* call: no run ends on an exception an oracle call raised.
C11_OracleFailureIsCaught == \A r \in Runs : err[r] # "OracleError"


\* ------------------------------------------- the Summarization stage, again
\* SummariserAgent.run is called again with the batch of run 1, once the
\* call before it has returned or raised.  Of the earlier calls only the
\* list the last one returned is kept.
summarise_again(r) ==
    /\ UNCHANGED later_vars
    /\ r > 1
    /\ pc[r] = "idle"
    /\ pc[r - 1] \in {"critic", "failed"}
    /\ pc' = [pc EXCEPT ![r] = "summarise"]
    /\ UNCHANGED <<arxiv_items, s2_items>>
    /\ outputs' = [q \in Runs |->
                      IF q = r THEN Merge(arxiv_items[1], s2_items[1])
                      ELSE IF q = r - 1 THEN outputs[q] ELSE <<>>]
    /\ pos' = [pos EXCEPT ![r] = 1]
    /\ out' = [out EXCEPT ![r] = <<>>]
    /\ UNCHANGED <<s2_urls, papers, future_ideas, err, handled, last,
                   hist_vars>>

NextResumm ==
    \E r \in Runs :
        \/ summarise_item(r)
        \/ summarise_return(r)
        \/ summarise_again(r)

\* The batch is what a fetch from an empty store returned when only arXiv
\* answered.
InitResumm ==
    /\ s2_urls = [n \in 1..NumDoi |-> IF n % 2 = 1 THEN "url" ELSE ""]
    /\ arxiv_items \in
         {OfRun1(ArxivResults(resp, {})) : resp \in ArxivResponses}
    /\ s2_items = OfRun1(<<>>)
    /\ outputs = OfRun1(Merge(arxiv_items[1], s2_items[1]))
    /\ papers = InsertAll(<<>>, outputs[1]).tbl
    /\ future_ideas = <<>>
    /\ pc = OnlyRun1("summarise")
    /\ InitLocals

SpecResumm == InitResumm /\ [][NextResumm]_vars

\* the summary column of the row with this id
SummaryOf(tbl, pid) ==
    tbl[CHOOSE k \in DOMAIN tbl : tbl[k].id = pid].summary

\* C12: when the Summarization stage saves a summary for an item, also for
\* one that already has a summary from an earlier call, the stored summary
\* is exactly the new text.
C12_ResummariseOverwrites ==
    [][\A r \in Runs :
          (pc[r] = "summarise" /\ Len(out'[r]) = Len(out[r]) + 1) =>
              LET p == out'[r][Len(out'[r])]
              IN  SummaryOf(papers', p.paper_id) = p.summary]_vars

\* a later call has saved, for an item the call before it returned with a
\* summary, a different text
C12_Witness ==
    \E r \in Runs :
        /\ r > 1
        /\ \E j \in DOMAIN outputs[r - 1], k \in DOMAIN out[r] :
               /\ pc[r - 1] = "critic"
               /\ outputs[r - 1][j].paper_id = out[r][k].paper_id
               /\ outputs[r - 1][j].summary # <<>>
               /\ out[r][k].summary # <<>>
               /\ outputs[r - 1][j].summary # out[r][k].summary
               /\ SummaryOf(papers, out[r][k].paper_id) = out[r][k].summary


\* ------------------------------------------------------ the Critique stage
\* objects in which the oracle did not keep to the 0-10 integers
WideReviewOutcomes ==
    ReviewOutcomes
    \cup {[parsed |-> TRUE, obj |-> [FullReview EXCEPT !.novelty = JInt(11)]],
          [parsed |-> TRUE,
           obj |-> [FullReview EXCEPT !.relevance = JStr("high")]]}

\* what an observer notes of one iteration of the loop of CriticAgent.run
CriticNoted(p, rv) ==
    [id |-> p.paper_id, len |-> Len(p.summary),
     called |-> ~TooShort(p.summary),
     kind |-> IF TooShort(p.summary) \/ NoReview(rv) THEN "skipped"
              ELSE IF ReviewKeys \subseteq DOMAIN rv.obj THEN "scored"
              ELSE "raised"]

\* CriticAgent.run: one item of papers_in, with what the observer notes
critic_item_observed(r) ==
    /\ UNCHANGED later_vars
    /\ pc[r] = "critic"
    /\ pos[r] <= Len(outputs[r])
    /\ \E rv \in WideReviewOutcomes :
         /\ CriticStep(r, rv)
         /\ handled' = [handled EXCEPT ![r] =
                          Append(@, CriticNoted(outputs[r][pos[r]], rv))]
    /\ UNCHANGED <<future_ideas, fetch_vars, outputs, last, summary_writes>>

\* the summaries the Summarization stage can have saved
Summaries == {llm(c) : c \in OracleContents}

RECURSIVE SaveAll(_, _)
SaveAll(tbl, items) ==
    IF items = <<>> THEN tbl
    ELSE SaveAll(save_summary(tbl, Head(items).paper_id, Head(items).summary),
                 Tail(items))

\* The Critique stage of one run, on a list the Summarization stage
\* returned for what a fetch from an empty store gave it.
InitCritic ==
    /\ s2_urls = [n \in 1..NumDoi |-> IF n % 2 = 1 THEN "url" ELSE ""]
    /\ arxiv_items \in
         {OfRun1(ArxivResults(resp, {})) : resp \in ArxivResponses}
    /\ s2_items \in
         {OfRun1(S2Results(data, {})) : data \in S2Responses(s2_urls)}
    /\ \E f \in [1..Len(Merge(arxiv_items[1], s2_items[1])) -> Summaries] :
         outputs = OfRun1([k \in DOMAIN f |->
                       [Merge(arxiv_items[1], s2_items[1])[k]
                           EXCEPT !.summary = f[k]]])
    /\ papers = SaveAll(InsertAll(<<>>, outputs[1]).tbl, outputs[1])
    /\ future_ideas = <<>>
    /\ pc = OnlyRun1("critic")
    /\ InitLocals

NextCritic ==
    \E r \in Runs :
        \/ critic_item_observed(r)
        \/ critic_return(r)

SpecCritic == InitCritic /\ [][NextCritic]_vars

\* C13: a response of the scoring oracle that is not the expected structure
\* drops that item only: the Critique stage does not end on the error of a
\* missing key.
C13_MalformedReviewDropsItemOnly == \A r \in Runs : err[r] # "KeyError"

\* a score as the claim wants it: an integer of 0..10, as number or numeral
ScoreOk(v) == \E n \in 0..10 : v = JInt(n) \/ v = JStr(ToString(n))

\* C14: every item the Critique stage returns and every record it has
\* written carries three scores that are integers of 0..10 and a critique
\* text, whatever the oracle returned.
C14_ScoresAreIntegersInRange ==
    /\ \A k \in DOMAIN papers :
           papers[k].critique # None =>
               /\ ScoreOk(papers[k].score_novelty)
               /\ ScoreOk(papers[k].score_method)
               /\ ScoreOk(papers[k].score_relevance)
               /\ papers[k].critique[1] = "str"
    /\ \A r \in Runs : \A k \in DOMAIN out[r] :
           pc[r] = "critic" =>
               /\ ScoreOk(out[r][k].score_novelty)
               /\ ScoreOk(out[r][k].score_method)
               /\ ScoreOk(out[r][k].score_relevance)
               /\ out[r][k].critique[1] = "str"

\* C15: the Critique stage scores an item only if its summary has at least
\* min_summary_len characters: for a shorter one it makes no oracle call,
\* writes no score and leaves the item out of what it returns.
C15_ShortSummaryIsNotScored ==
    \A r \in Runs : \A k \in DOMAIN handled[r] :
        handled[r][k].len < min_summary_len =>
            /\ ~handled[r][k].called
            /\ handled[r][k].kind = "skipped"
            /\ handled[r][k].id \notin PaperIdsOf(out[r])
            /\ (pc[r] = "trend" =>
                   handled[r][k].id \notin PaperIdsOf(outputs[r]))
            /\ \A j \in DOMAIN papers :
                   papers[j].id = handled[r][k].id =>
                       /\ papers[j].critique = None
                       /\ papers[j].score_novelty = None

\* the stage has returned after it passed over a summary one character
\* short of the minimum and scored one of exactly the minimum length
C15_Witness ==
    \E r \in Runs :
        /\ pc[r] = "trend"
        /\ \E j, k \in DOMAIN handled[r] :
               /\ handled[r][j].len = min_summary_len - 1
               /\ handled[r][k].len = min_summary_len
               /\ handled[r][k].kind = "scored"
               /\ handled[r][k].id \in PaperIdsOf(outputs[r])


\* ------------------------------------------------------------ trend analyzer
MaxPapers == 8

\* int(math.sqrt(n))
RECURSIVE Isqrt(_, _)
Isqrt(n, c) == IF (c + 1) * (c + 1) > n THEN c ELSE Isqrt(n, c + 1)

Min(a, b) == IF a <= b THEN a ELSE b

\* k = min(8, int(math.sqrt(len(rows)))) or 2
NumClusters(n) ==
    LET k == Min(max_clusters, Isqrt(n, 0)) IN IF k = 0 THEN 2 ELSE k

\* embeddings are points of a space with as many points as the largest
\* store has clusters; the embedding column holds <<>> or a point <<v>>
Vecs == 0..(NumClusters(MaxPapers) - 1)

\* created_at in days, at the edges of the two windows
Days == {0, week_days, 2 * week_days}

TrendId(n) == <<"arxiv:", "2402.", ToString(n)>>

\* a row of papers with its created_at column
TrendRow(n, summ, emb, day) ==
    [NewRow(TrendId(n)) EXCEPT !.summary = summ, !.embedding = emb,
                               !.created_at = day]

\* select(id, summary, embedding, created_at).where(summary != "")
Summarised(tbl) == SelectSeq(tbl, LAMBDA row : row.summary # <<>>)

\* the rows for which _ensure_embeddings calls the embedding oracle
Missing(tbl) ==
    {j \in DOMAIN tbl : tbl[j].summary # <<>> /\ tbl[j].embedding = <<>>}

\* the update without its where clause: every row takes the embedding
SetEmbeddings_NoWhere(tbl, emb) ==
    [j \in DOMAIN tbl |->
        IF DOMAIN emb # {}
        THEN [tbl[j] EXCEPT
                 !.embedding = <<emb[CHOOSE m \in DOMAIN emb : TRUE]>>]
        ELSE tbl[j]]

\* update(papers).where(id == rid).values(embedding=json.dumps(emb)), for
\* every row the oracle was called for
SetEmbeddings(tbl, emb) ==
    [j \in DOMAIN tbl |->
        IF j \in DOMAIN emb THEN [tbl[j] EXCEPT !.embedding = <<emb[j]>>]
        ELSE tbl[j]]

\* a test that counts the row created exactly a week ago as not recent
InLastWeek_Strict(created) == created > Today - week_days

\* created >= last_week
InLastWeek(created) == created >= Today - week_days

\* elif created >= prev_week
InPrevWeek(created) ==
    ~InLastWeek(created) /\ created >= Today - week_days - week_days

\* the growth taken relative to the current count
Growth_OverCurrent(cur, prev) ==
    [num |-> cur - prev, den |-> IF cur = 0 THEN 1 ELSE cur]

\* prev = counts_prev[lab] or 1; growth = (counts[lab] - counts_prev[lab]) / prev
\* as the fraction num / den
Growth(cur, prev) ==
    [num |-> cur - prev, den |-> IF prev = 0 THEN 1 ELSE prev]

\* round(g, 2) in hundredths: the nearest, the even one of two nearest
Round2(g) ==
    LET x == 100 * g.num
        q == x \div g.den
        rem == x - q * g.den
    IN  IF 2 * rem < g.den THEN q
        ELSE IF 2 * rem > g.den THEN q + 1
        ELSE IF q % 2 = 0 THEN q ELSE q + 1

\* tuple order of (growth, lab, ...): a before b
Before(a, b) ==
    \/ a.growth.num * b.growth.den < b.growth.num * a.growth.den
    \/ /\ a.growth.num * b.growth.den = b.growth.num * a.growth.den
       /\ a.lab < b.lab


\* the list sorted the other way round
RECURSIVE SortDesc_Ascending(_)
SortDesc_Ascending(S) ==
    IF S = {} THEN <<>>
    ELSE LET least == CHOOSE a \in S : \A b \in S \ {a} : Before(a, b)
         IN  <<least>> \o SortDesc_Ascending(S \ {least})

\* scored.sort(reverse=True)
RECURSIVE SortDesc(_)
SortDesc(S) ==
    IF S = {} THEN <<>>
    ELSE LET top == CHOOSE a \in S : \A b \in S \ {a} : Before(b, a)
         IN  <<top>> \o SortDesc(S \ {top})

\* sorted(..., key=created, reverse=True): rows of equal key keep their order
RECURSIVE ByCreatedDesc(_)
ByCreatedDesc(rows) ==
    IF rows = <<>> THEN <<>>
    ELSE LET newest == CHOOSE d \in {rows[j].created_at : j \in DOMAIN rows} :
                          \A j \in DOMAIN rows : rows[j].created_at <= d
         IN  SelectSeq(rows, LAMBDA row : row.created_at = newest)
             \o ByCreatedDesc(SelectSeq(rows,
                                  LAMBDA row : row.created_at # newest))

\* the label fit_predict gives a row
LabelOf(row) == kmeans[row.embedding[1]]

\* the rows of cluster lab
Members(rows, lab) == SelectSeq(rows, LAMBDA row : LabelOf(row) = lab)

\* counts[lab] and counts_prev[lab] after the loop over zip(rows, labels)
counts(rows, lab) ==
    Len(SelectSeq(Members(rows, lab),
                  LAMBDA row : InLastWeek(row.created_at)))
counts_prev(rows, lab) ==
    Len(SelectSeq(Members(rows, lab),
                  LAMBDA row : InPrevWeek(row.created_at)))

\* sorted_ids of cluster lab
sorted_ids(rows, lab) ==
    LET ms == ByCreatedDesc(Members(rows, lab))
    IN  [j \in DOMAIN ms |-> ms[j].id]

\* the tuple (growth, lab, counts[lab], lab_names[lab]) of cluster lab, with
\* the sorted_ids the insert loop computes for it from the same rows
ScoredEntry(rows, lab) ==
    [growth |-> Growth(counts(rows, lab), counts_prev(rows, lab)),
     lab |-> lab, cnt |-> counts(rows, lab),
     label |-> <<"cluster", ToString(lab)>>,
     ids |-> sorted_ids(rows, lab)]

\* scored, sorted, for the rows of a store
Scored(rows) ==
    SortDesc({ScoredEntry(rows, lab) :
                 lab \in 0..(NumClusters(Len(rows)) - 1)})

\* scored[: self.top_k]
Take(list, n) == SubSeq(list, 1, Min(n, Len(list)))

\* the rows one Trend run inserts
Snapshot(list, n, at) ==
    [j \in DOMAIN Take(list, n) |->
        [trend_label |-> list[j].label, paper_ids |-> list[j].ids,
         count |-> list[j].cnt, growth |-> Round2(list[j].growth),
         computed_at |-> at]]

\* inserts without the delete before them
TrendWrite_NoDelete(tbl, snap) == tbl \o snap

\* conn.execute(delete(trends)), then the inserts, in one transaction
TrendWrite(tbl, snap) == snap

\* a threshold one too low
NotEnough_OffByOne(rows) == Len(rows) < min_rows - 1

\* if len(rows) < 8
NotEnough(rows) == Len(rows) < min_rows


\* TrendAnalyzerAgent.run up to the transaction on trends:
\* _ensure_embeddings in its own transaction (an oracle call that raises
\* rolls its updates back), the test on the number of rows, the clustering
\* and the counts.  A cluster without rows makes the labelling step divide
\* by the number of its texts, which raises or not with the library.
trend_compute(r) ==
    /\ pc[r] = "trend"
    /\ \E answered \in BOOLEAN :
         IF ~answered
         THEN /\ Missing(papers) # {}
              /\ Fail(r, "OracleError")
              /\ UNCHANGED <<papers, scored, outputs>>
         ELSE \E emb \in [Missing(papers) -> Vecs] :
                LET tbl == SetEmbeddings(papers, emb)
                    rows == Summarised(tbl)
                    k == NumClusters(Len(rows))
                IN  /\ papers' = tbl
                    /\ IF NotEnough(rows)
                       THEN /\ pc' = [pc EXCEPT ![r] = Edge("trend")]
                            /\ outputs' = [outputs EXCEPT
                                               ![r] = PassThrough(<<>>, @)]
                            /\ UNCHANGED <<err, scored>>
                       ELSE \/ /\ \E lab \in 0..(k - 1) :
                                     Members(rows, lab) = <<>>
                               /\ Fail(r, "ZeroDivisionError")
                               /\ UNCHANGED <<scored, outputs>>
                            \/ /\ scored' = [scored EXCEPT ![r] = Scored(rows)]
                               /\ pc' = [pc EXCEPT ![r] = "trend_write"]
                               /\ UNCHANGED <<err, outputs>>
    /\ UNCHANGED <<future_ideas, fetch_vars, loop_vars, hist_vars, recur_vars,
                   trends, kmeans, top_k, plan_vars, job_vars, log_vars>>

\* the transaction on trends: the delete and the inserts of scored[:top_k],
\* with computed_at the instant of this run
trend_persist(r) ==
    /\ pc[r] = "trend_write"
    /\ trends' = TrendWrite(trends, Snapshot(scored[r], top_k, r))
    /\ pc' = [pc EXCEPT ![r] = Edge("trend")]
    /\ outputs' = [outputs EXCEPT ![r] = PassThrough(<<>>, @)]
    /\ UNCHANGED <<papers, future_ideas, err, fetch_vars, loop_vars,
                   hist_vars, recur_vars, kmeans, top_k, scored, plan_vars,
                   job_vars,
                   log_vars>>

NextTrend ==
    \E r \in Runs :
        \/ trend_compute(r)
        \/ trend_persist(r)

\* the non-decreasing sequences of length n over lo..hi
RECURSIVE NonDec(_, _, _)
NonDec(n, lo, hi) ==
    IF n = 0 THEN {<<>>}
    ELSE UNION {{<<x>> \o t : t \in NonDec(n - 1, x, hi)} : x \in lo..hi}

\* created_at is the time of the insert, so it does not decrease along the
\* table: a store is given by the non-decreasing sequence of the
\* (created_at, embedding) of its rows, numbered day-major
NumVecs == Cardinality(Vecs)
DayOf(key) == (key \div NumVecs) * week_days
VecOf(key) == key % NumVecs
StoreOf(keys) ==
    [j \in DOMAIN keys |->
        TrendRow(j, Rep(min_summary_len, "L"), <<VecOf(keys[j])>>,
                 DayOf(keys[j]))]

\* the labellings that use every cluster
Labellings(k) ==
    {g \in [Vecs -> 0..(k - 1)] : \A lab \in 0..(k - 1) : \E v \in Vecs : g[v] = lab}

\* a snapshot an earlier Trend run left
OldSnapshot ==
    <<[trend_label |-> <<"cluster", "0">>, paper_ids |-> <<>>, count |-> 0,
       growth |-> 0, computed_at |-> 0]>>

InitGraphLocals ==
    /\ s2_urls = [n \in 1..NumDoi |-> IF n % 2 = 1 THEN "url" ELSE ""]
    /\ future_ideas = <<>>
    /\ arxiv_items = [r \in Runs |-> <<>>]
    /\ s2_items = [r \in Runs |-> <<>>]
    /\ outputs = [r \in Runs |-> <<>>]
    /\ err = [r \in Runs |-> "none"]
    /\ pos = [r \in Runs |-> 1]
    /\ out = [r \in Runs |-> <<>>]
    /\ handled = [r \in Runs |-> <<>>]
    /\ last = [r \in Runs |-> NoLast]
    /\ summary_writes = [pid \in PaperIds |-> 0]
    /\ score_writes = [pid \in PaperIds |-> 0]
    /\ scored = [r \in Runs |-> <<>>]

InitNoPipeline ==
    /\ InitGraphLocals
    /\ NoJobs
    /\ NoLogs
    /\ NoRecursion

\* Trend runs of concurrent pipeline runs on a store of items of the last
\* week, the newest of which may have no embedding yet.
InitTrend ==
    /\ InitNoPipeline
    /\ \E m \in (min_rows - 1)..MaxPapers, fresh \in BOOLEAN :
         \E keys \in NonDec(m, 2 * NumVecs, 3 * NumVecs - 1) :
            papers = [StoreOf(keys) EXCEPT
                         ![m].embedding = IF fresh THEN <<>> ELSE @]
    /\ trends \in {<<>>, OldSnapshot}
    /\ kmeans \in Labellings(NumClusters(Len(papers)))
    /\ top_k = default_top_k
    /\ NoPlanner
    /\ pc = [r \in Runs |-> "trend"]

SpecTrend == InitTrend /\ [][NextTrend]_vars

\* One Trend run on a full store whose items are of the last two weeks, at
\* most one of them older.
InitGrowth ==
    /\ InitNoPipeline
    /\ \E keys \in NonDec(MaxPapers, 0, 3 * NumVecs - 1) :
         /\ Cardinality({j \in DOMAIN keys : keys[j] < NumVecs}) <= 1
         /\ papers = StoreOf(keys)
    /\ trends = <<>>
    /\ kmeans \in Labellings(NumClusters(Len(papers)))
    /\ top_k \in {1, default_top_k}
    /\ NoPlanner
    /\ pc = OnlyRun1("trend")

SpecGrowth == InitGrowth /\ [][NextTrend]_vars


\* the Trend run r has committed its transaction on trends
Written(r) == pc[r] = "planner" /\ scored[r] # <<>>

\* C16: what a reader finds in the trends table, also while Trend runs of
\* concurrent pipeline runs are under way, is the whole snapshot of one run:
\* the rows share one computed_at, and once a run has written they are the
\* min(top_k, k) first clusters of the run of that computed_at, never none.
C16_TrendsIsOneWholeSnapshot ==
    /\ \A j, k \in DOMAIN trends : trends[j].computed_at = trends[k].computed_at
    /\ (\E r \in Runs : Written(r)) =>
          \E r \in Runs :
              /\ Written(r)
              /\ trends # <<>>
              /\ trends[1].computed_at = r
              /\ Len(trends) = Min(top_k, Len(scored[r]))
              /\ \A j \in DOMAIN trends :
                     /\ trends[j].trend_label = scored[r][j].label
                     /\ trends[j].paper_ids = scored[r][j].ids

\* two runs have written, over a snapshot that was there before them
C16_Witness ==
    \E q, r \in Runs :
        /\ q # r
        /\ Written(q) /\ Written(r)
        /\ Len(trends) >= 2
        /\ trends[1].computed_at = q

\* C17: a Trend run that finds fewer than min_rows summarised items ends
\* there: it does no clustering and the trends table stays as it was.
C17_TooFewItemsLeaveTrendsAlone ==
    [][\A r \in Runs :
          (/\ pc[r] = "trend"
           /\ pc'[r] # "trend"
           /\ Len(Summarised(papers)) < min_rows) =>
              /\ pc'[r] \in {"planner", "failed"}
              /\ scored'[r] = <<>>
              /\ trends' = trends]_vars

\* a run has ended on a store one item short, the earlier snapshot in place
C17_Witness ==
    \E r \in Runs :
        /\ pc[r] = "planner"
        /\ scored[r] = <<>>
        /\ Len(Summarised(papers)) = min_rows - 1
        /\ trends = OldSnapshot

\* created_at of the row with this id
CreatedOf(pid) ==
    papers[CHOOSE j \in DOMAIN papers : papers[j].id = pid].created_at

\* the members of a cluster created in the last 7 days, and in the 7 before
CurrentCount(ids) ==
    Cardinality({j \in DOMAIN ids : CreatedOf(ids[j]) >= Today - 7})
PreviousCount(ids) ==
    Cardinality({j \in DOMAIN ids :
                    /\ CreatedOf(ids[j]) < Today - 7
                    /\ CreatedOf(ids[j]) >= Today - 14})

Max(a, b) == IF a >= b THEN a ELSE b
Abs(a) == IF a >= 0 THEN a ELSE 0 - a

\* C18 as stated: every persisted cluster reports as count its members of
\* the last 7 days and as growth exactly
\* (current_count - previous_count) / max(previous_count, 1).
\* (growth is held in hundredths.)
C18_GrowthIsTheExactQuotient ==
    \A j \in DOMAIN trends :
        LET cur == CurrentCount(trends[j].paper_ids)
            prev == PreviousCount(trends[j].paper_ids)
        IN  /\ trends[j].count = cur
            /\ trends[j].growth * Max(prev, 1) = 100 * (cur - prev)

\* C18 as amended: every persisted cluster reports as count its members of
\* the last 7 days and as growth
\* (current_count - previous_count) / max(previous_count, 1) rounded to two
\* decimals, that is within half a hundredth of the quotient; 3 recent and
\* 1 prior members give count 3 and growth 2.0.
C18_GrowthIsTheRoundedQuotient ==
    \A j \in DOMAIN trends :
        LET cur == CurrentCount(trends[j].paper_ids)
            prev == PreviousCount(trends[j].paper_ids)
        IN  /\ trends[j].count = cur
            /\ 2 * Abs(trends[j].growth * Max(prev, 1) - 100 * (cur - prev))
                   <= Max(prev, 1)
            /\ (cur = 3 /\ prev = 1) => trends[j].growth = 200

\* a cluster of 3 recent and 1 prior members is persisted with growth 2.0,
\* next to one whose quotient is not a number of hundredths
C18_Witness ==
    \E j, k \in DOMAIN trends :
        /\ CurrentCount(trends[j].paper_ids) = 3
        /\ PreviousCount(trends[j].paper_ids) = 1
        /\ trends[j].growth = 200
        /\ PreviousCount(trends[k].paper_ids) = 3
        /\ (100 * (CurrentCount(trends[k].paper_ids) - 3)) % 3 # 0

\* C19 as stated: a cluster with previous_count 0 and current_count 3 has
\* growth exactly 1.0.
C19_GrowthFromZeroIsOne ==
    \A r \in Runs : \A j \in DOMAIN scored[r] :
        (CurrentCount(scored[r][j].ids) = 3
            /\ PreviousCount(scored[r][j].ids) = 0) =>
            scored[r][j].growth.num = scored[r][j].growth.den

\* C19 as amended: a cluster with previous_count 0 and current_count 3 has
\* growth exactly 3.0, the quotient (3 - 0) / max(0, 1): a number, not
\* infinite or undefined.
C19_GrowthFromZeroIsThree ==
    \A r \in Runs : \A j \in DOMAIN scored[r] :
        (CurrentCount(scored[r][j].ids) = 3
            /\ PreviousCount(scored[r][j].ids) = 0) =>
            /\ scored[r][j].growth.den > 0
            /\ scored[r][j].growth.num = 3 * scored[r][j].growth.den

\* a Trend run has scored a cluster of 3 recent members and none before
C19_Witness ==
    \E r \in Runs : \E j \in DOMAIN scored[r] :
        /\ CurrentCount(scored[r][j].ids) = 3
        /\ PreviousCount(scored[r][j].ids) = 0
        /\ Written(r)

\* C20: the snapshot a Trend run persists has exactly min(top_k, k) clusters
\* and none of the clusters left out has a greater growth than one of them.
C20_TopKByGrowth ==
    \A r \in Runs :
        (Written(r) /\ trends # <<>> /\ trends[1].computed_at = r) =>
            /\ Len(trends) =
                  Min(top_k, NumClusters(Len(Summarised(papers))))
            /\ \A j, k \in DOMAIN scored[r] :
                  (/\ \E t \in DOMAIN trends :
                         trends[t].trend_label = scored[r][j].label
                   /\ \A t \in DOMAIN trends :
                         trends[t].trend_label # scored[r][k].label) =>
                      scored[r][j].growth.num * scored[r][k].growth.den
                          >= scored[r][k].growth.num * scored[r][j].growth.den

\* a run with top_k below k has persisted the cluster of greater growth
C20_Witness ==
    \E r \in Runs :
        /\ Written(r)
        /\ Len(trends) = top_k
        /\ Len(scored[r]) > top_k
        /\ \E j, k \in DOMAIN scored[r] :
              /\ trends[1].trend_label = scored[r][j].label
              /\ scored[r][j].growth.num * scored[r][k].growth.den
                    > scored[r][k].growth.num * scored[r][j].growth.den


\* ----------------------------------------------------------------- planner
MaxPlan == 3        \* rows of the store a Planning run reads
MaxScore == 10      \* the numerals float() is given

\* select(...).where((summary != "") & (created_at >= cutoff)), with
\* cutoff = datetime.utcnow() - timedelta(days=self.days_back)
Candidates(tbl) ==
    SelectSeq(tbl, LAMBDA row : /\ row.summary # <<>>
                                /\ row.created_at >= Today - days_back)

\* a rows test that never ends the run
NothingToPlan_Never(rows) == FALSE

\* if not rows
NothingToPlan(rows) == rows = <<>>

\* x or 0, on a column that holds NULL or a text
OrZero(v) == IF v = None \/ v = JStr("") THEN JInt(0) ELSE v

ValueError == <<"ValueError">>

\* float(x): x is 0 or a text, a numeral of 0..MaxScore or not a number
Numerals == {ToString(n) : n \in 0..MaxScore}
NumeralValue == [t \in Numerals |-> CHOOSE n \in 0..MaxScore : ToString(n) = t]
PyFloat(v) ==
    IF v[1] = "int" THEN <<"float", v[2]>>
    ELSE IF v[2] \in Numerals THEN <<"float", NumeralValue[v[2]]>>
         ELSE ValueError

\* the weights the other way round
PlanScore_Swapped(novelty, relevance) == 6 * novelty + 4 * relevance

\* score = 0.4 * novelty + 0.6 * relevance, in tenths
PlanScore(novelty, relevance) == 4 * novelty + 6 * relevance

\* the try block does not raise ValueError
Parses(row) ==
    /\ PyFloat(OrZero(row.score_novelty)) # ValueError
    /\ PyFloat(OrZero(row.score_relevance)) # ValueError

\* scored, before the sort: (score, r) of the rows whose scores parse.  The
\* sort orders any two of them, so the order of the loop is not kept.
PlanEntries(rows) ==
    {[score |-> PlanScore(PyFloat(OrZero(row.score_novelty))[2],
                          PyFloat(OrZero(row.score_relevance))[2]),
      r |-> row] : row \in Range(SelectSeq(rows, Parses))}

\* the tokens ids are made of, in string order; numerals have one digit.
\* Two ids differ first at tokens of equal length or of different first
\* character, so comparing them token by token is comparing the strings.
TokenOrder == <<"10.", "1000/", "2401.", "2402.", "arxiv:">>
TokenRank(tok) ==
    IF \E n \in 0..9 : ToString(n) = tok
    THEN CHOOSE n \in 0..9 : ToString(n) = tok
    ELSE CHOOSE j \in DOMAIN TokenOrder : TokenOrder[j] = tok

\* a < b on two strings
RECURSIVE StrLess(_, _)
StrLess(a, b) ==
    IF b = <<>> THEN FALSE
    ELSE IF a = <<>> THEN TRUE
    ELSE IF Head(a) = Head(b) THEN StrLess(Tail(a), Tail(b))
    ELSE TokenRank(Head(a)) < TokenRank(Head(b))

\* tuple order of (score, r): a before b.  Rows compare as the tuples of
\* their columns, of which id is the first and differs between two rows.
PlanBefore(a, b) ==
    \/ a.score < b.score
    \/ a.score = b.score /\ StrLess(a.r.id, b.r.id)

\* scored.sort(reverse=True)
RECURSIVE PlanSortDesc(_)
PlanSortDesc(S) ==
    IF S = {} THEN <<>>
    ELSE LET top == CHOOSE a \in S : \A b \in S \ {a} : PlanBefore(b, a)
         IN  <<top>> \o PlanSortDesc(S \ {top})

\* chosen = scored[: self.top_n], by the ids of its rows: a bullet of the
\* prompt gives the title and pdf_url of the row
Chosen(rows, n) ==
    LET sorted == PlanSortDesc(PlanEntries(rows))
    IN  [j \in DOMAIN Take(sorted, n) |-> sorted[j].r.id]

\* what the oracle answers to the prompt of run r
PlanText(r, bullets) == [by |-> r, bullets |-> bullets]

\* the insert without the delete before it
PlanWrite_NoDelete(tbl, text) ==
    tbl \o <<[plan_text |-> text, created_at |-> Today]>>

\* delete(plans), then insert(plans).values(plan_text=...), one transaction
PlanWrite(tbl, text) == <<[plan_text |-> text, created_at |-> Today]>>

\* PlannerAgent.run up to the transaction on plans: the query, the ranking
\* and the call of the oracle, which answers or raises
planner_draft(r) ==
    /\ pc[r] = "planner"
    /\ LET rows == Candidates(papers)
       IN  IF NothingToPlan(rows)
           THEN /\ pc' = [pc EXCEPT ![r] = Edge("planner")]
                /\ outputs' = [outputs EXCEPT ![r] = PassThrough(<<>>, @)]
                /\ UNCHANGED <<err, chosen, plan_text, drafted>>
           ELSE /\ chosen' = [chosen EXCEPT ![r] = Chosen(rows, top_n)]
                /\ drafted' = [drafted EXCEPT ![r] = TRUE]
                /\ UNCHANGED outputs
                /\ \/ /\ Fail(r, "OracleError")
                      /\ UNCHANGED plan_text
                   \/ /\ plan_text' =
                            [plan_text EXCEPT ![r] = PlanText(r, chosen'[r])]
                      /\ pc' = [pc EXCEPT ![r] = "plan_write"]
                      /\ UNCHANGED err
    /\ UNCHANGED <<papers, future_ideas, fetch_vars, loop_vars,
                   hist_vars, recur_vars, trend_vars, plans, top_n, job_vars,
                   log_vars>>

\* the transaction on plans, and the return to the graph
planner_persist(r) ==
    /\ pc[r] = "plan_write"
    /\ plans' = PlanWrite(plans, plan_text[r])
    /\ pc' = [pc EXCEPT ![r] = Edge("planner")]
    /\ outputs' = [outputs EXCEPT ![r] = PassThrough(<<>>, @)]
    /\ UNCHANGED <<papers, future_ideas, err, fetch_vars, loop_vars,
                   hist_vars, recur_vars, trend_vars, top_n, chosen,
                   plan_text, drafted,
                   job_vars, log_vars>>

NextPlan ==
    \E r \in Runs :
        \/ planner_draft(r)
        \/ planner_persist(r)

\* a plan an earlier Planning run left
OldPlan == <<[plan_text |-> PlanText(0, <<>>), created_at |-> 0]>>

\* the Trend stage has not run
NoTrend ==
    /\ trends = <<>>
    /\ kmeans = <<>>
    /\ top_k = default_top_k

\* a summarised row of the store, with the scores the critic stored or, the
\* scores being NULL, as the summariser left it
PlanRow(n, day, scores) ==
    IF scores = <<None, None>>
    THEN TrendRow(n, Rep(min_summary_len, "L"), <<0>>, day)
    ELSE [TrendRow(n, Rep(min_summary_len, "L"), <<0>>, day) EXCEPT
             !.score_novelty = scores[1], !.score_method = JStr("5"),
             !.score_relevance = scores[2],
             !.critique = JStr("one concise paragraph")]

\* Planning runs of concurrent pipeline runs on a store of scored items, of
\* which the first ones may be older than the lookback window.
InitPlan ==
    /\ InitNoPipeline
    /\ NoTrend
    /\ \E m \in 0..MaxPlan : \E old \in 0..m :
         papers = [j \in 1..m |->
                      PlanRow(j, IF j <= old THEN 0 ELSE 2 * week_days,
                              <<JStr("5"), JStr("8")>>)]
    /\ plans \in {<<>>, OldPlan}
    /\ top_n = default_top_n
    /\ chosen = [r \in Runs |-> <<>>]
    /\ plan_text = [r \in Runs |-> None]
    /\ drafted = [r \in Runs |-> FALSE]
    /\ pc = [r \in Runs |-> "planner"]

SpecPlan == InitPlan /\ [][NextPlan]_vars

\* what the score columns of a row can hold: numerals, NULL where the item
\* was not scored, and the texts an oracle answer can leave there
StoredScores ==
    {<<JStr("5"), JStr("8")>>, <<JStr("8"), JStr("5")>>, <<None, None>>,
     <<JStr("high"), JStr("8")>>, <<JStr("5"), JStr("")>>}

\* One Planning run on a store of items of the lookback window, the ids in
\* the order of the inserts or against it, the last item maybe unsummarised.
InitRank ==
    /\ InitNoPipeline
    /\ NoTrend
    /\ \E m \in 1..MaxPlan, up \in BOOLEAN, bare \in BOOLEAN :
         \E sc \in [1..m -> StoredScores] :
            papers = [j \in 1..m |->
                         [PlanRow(IF up THEN j ELSE m + 1 - j,
                                  2 * week_days, sc[j])
                             EXCEPT !.summary =
                                 IF bare /\ j = m THEN <<>> ELSE @]]
    /\ plans = <<>>
    /\ top_n \in {2, default_top_n}
    /\ chosen = [r \in Runs |-> <<>>]
    /\ plan_text = [r \in Runs |-> None]
    /\ drafted = [r \in Runs |-> FALSE]
    /\ pc = OnlyRun1("planner")

SpecRank == InitRank /\ [][NextPlan]_vars


\* C21: however Planning runs interleave, the plans table has at most one
\* row, and the transaction of a run that drafted a plan leaves exactly the
\* plan of that run in it.
C21_PlansHoldsTheLatestPlan ==
    /\ [](Len(plans) <= 1)
    /\ [][\A r \in Runs :
             (pc[r] = "plan_write" /\ pc'[r] # "plan_write") =>
                 /\ Len(plans') = 1
                 /\ plans'[1].plan_text = PlanText(r, chosen[r])]_vars

\* two runs have drafted and written, the table holds the plan of one
C21_Witness ==
    \E q, r \in Runs :
        /\ q # r
        /\ pc[q] = "done" /\ drafted[q]
        /\ pc[r] = "done" /\ drafted[r]
        /\ Len(plans) = 1
        /\ plans[1].plan_text.by = q

\* the candidates the planner ranks, and 0.6 x relevance + 0.4 x novelty of
\* one of them, in tenths
RankedRows == SelectSeq(Candidates(papers), Parses)
TenthsOf(row) ==
    6 * PyFloat(OrZero(row.score_relevance))[2]
        + 4 * PyFloat(OrZero(row.score_novelty))[2]

\* C22: the items a Planning run chooses are the top_n candidates by
\* 0.6 x relevance + 0.4 x novelty, in descending order of it: no candidate
\* left out has a greater score than a chosen one (relevance 8 and novelty
\* 5 score 6.8, above relevance 5 and novelty 8).
C22_ChosenAreTheTopScores ==
    \A r \in Runs :
        drafted[r] =>
            /\ Len(chosen[r]) = Min(top_n, Len(RankedRows))
            /\ \A j \in DOMAIN chosen[r] :
                  \E k \in DOMAIN RankedRows : RankedRows[k].id = chosen[r][j]
            /\ \A j, k \in DOMAIN chosen[r] :
                  j < k => TenthsOf(RowOf(chosen[r][j]))
                              >= TenthsOf(RowOf(chosen[r][k]))
            /\ \A j \in DOMAIN chosen[r], k \in DOMAIN RankedRows :
                  (RankedRows[k].id \notin Range(chosen[r])) =>
                      TenthsOf(RankedRows[k])
                          <= TenthsOf(RowOf(chosen[r][j]))

\* the item of score 6.8 is chosen before the one of score 6.2, and a
\* candidate is left out
C22_Witness ==
    \E r \in Runs :
        /\ drafted[r]
        /\ Len(chosen[r]) = 2
        /\ Len(RankedRows) > 2
        /\ RowOf(chosen[r][1]).score_relevance = JStr("8")
        /\ RowOf(chosen[r][1]).score_novelty = JStr("5")
        /\ TenthsOf(RowOf(chosen[r][1])) = 68
        /\ RowOf(chosen[r][2]).score_relevance = JStr("5")
        /\ RowOf(chosen[r][2]).score_novelty = JStr("8")

\* the place of an id in a list, 0 if it is not there
PlaceOf(list, pid) ==
    IF pid \in Range(list) THEN CHOOSE j \in DOMAIN list : list[j] = pid
    ELSE 0

\* C23: of two candidates of equal score the one the query returned first
\* is ranked first, and is the one kept when top_n cuts between them.
C23_TiesKeepQueryOrder ==
    \A r \in Runs :
        drafted[r] =>
            \A j, k \in DOMAIN RankedRows :
                (/\ j < k
                 /\ TenthsOf(RankedRows[j]) = TenthsOf(RankedRows[k])
                 /\ RankedRows[k].id \in Range(chosen[r])) =>
                    /\ RankedRows[j].id \in Range(chosen[r])
                    /\ PlaceOf(chosen[r], RankedRows[j].id)
                          < PlaceOf(chosen[r], RankedRows[k].id)

\* a stored score that is a text float() does not take
Unparsable(v) == v # None /\ PyFloat(v) = ValueError

\* C24: no item whose stored relevance or novelty cannot be parsed as a
\* number is among the items a Planning run ranks and chooses.
C24_UnparsableScoreIsExcluded ==
    \A r \in Runs : \A j \in DOMAIN chosen[r] :
        /\ ~Unparsable(RowOf(chosen[r][j]).score_novelty)
        /\ ~Unparsable(RowOf(chosen[r][j]).score_relevance)

\* C25: a Planning run that finds no item with a summary and a created_at
\* inside the lookback window ends there: no oracle call, no error, and
\* the plans table as it was.
C25_EmptyPoolIsANoOp ==
    [][\A r \in Runs :
          (/\ pc[r] = "planner"
           /\ pc'[r] # "planner"
           /\ Candidates(papers) = <<>>) =>
              /\ pc'[r] = "done"
              /\ drafted'[r] = FALSE
              /\ err'[r] = "none"
              /\ plan_text' = plan_text
              /\ plans' = plans]_vars

\* a run has ended on a store whose items are all too old, the earlier
\* plan in place
C25_Witness ==
    \E r \in Runs :
        /\ pc[r] = "done"
        /\ ~drafted[r]
        /\ papers # <<>>
        /\ Candidates(papers) = <<>>
        /\ plans = OldPlan


\* CriticAgent._persist has written the row
Critiqued(row) ==
    \/ row.score_novelty # None
    \/ row.score_method # None
    \/ row.score_relevance # None
    \/ row.critique # None

\* C32: every item a Planning run chooses has been critiqued: a row with a
\* summary and no stored scores or critique is not among the chosen.
C32_ChosenItemsAreCritiqued ==
    \A r \in Runs : \A j \in DOMAIN chosen[r] : Critiqued(RowOf(chosen[r][j]))

\* -------------------------------------------------------------------- jobs
\* the except block, were it to mark the job done
MarkFailed_Done(job, exc) == [job EXCEPT !.status = "done"]

\* jobs.update().values(status="failed", error=str(exc), ...)
MarkFailed(job, exc) == [job EXCEPT !.status = "failed", !.error = exc]

\* no row of the jobs table
NoJob == [status |-> "none", error |-> None]

\* jobs.update().where(jobs.c.id == job_id).values(...): a row that is not
\* in the table is not updated
Where(job, updated) == IF job = NoJob THEN job ELSE updated

\* a task that is run again once it has returned
pipeline_task_Redelivered(r) ==
    /\ task[r] \in {"delayed", "returned"}
    /\ task' = [task EXCEPT ![r] = "started"]
    /\ jobs' = [jobs EXCEPT ![r] = Where(@, [@ EXCEPT !.status = "running"])]
    /\ UNCHANGED <<s2_urls, papers, future_ideas, pc, err, arxiv_items,
                   s2_items, outputs, loop_vars,
                   hist_vars, recur_vars, trend_vars,
                   plan_vars, results_table, reraised, log_vars>>

\* pipeline_task up to the call of the graph: the job is marked running
pipeline_task(r) ==
    /\ task[r] = "delayed"
    /\ task' = [task EXCEPT ![r] = "started"]
    /\ jobs' = [jobs EXCEPT ![r] = Where(@, [@ EXCEPT !.status = "running"])]
    /\ UNCHANGED <<s2_urls, papers, future_ideas, pc, err, arxiv_items,
                   s2_items, outputs, loop_vars,
                   hist_vars, recur_vars, trend_vars,
                   plan_vars, results_table, reraised, log_vars>>

\* rg.run() inside pipeline_task
task_run(r) ==
    /\ task[r] = "started"
    /\ run(r)

\* SELECT plan_text FROM plans ORDER BY id DESC LIMIT 1, then plan or ""
ReadingPlan(tbl) == IF tbl = <<>> THEN <<"">> ELSE <<tbl[Len(tbl)].plan_text>>

\* the graph has returned: the snapshot row is inserted and the job marked
\* done, in one transaction
task_done(r) ==
    /\ task[r] = "started"
    /\ pc[r] = "done"
    /\ task' = [task EXCEPT ![r] = "returned"]
    /\ results_table' = Append(results_table,
           [job_id |-> r, reading_plan |-> ReadingPlan(plans),
            trends_json |-> trends, papers_json |-> papers])
    /\ jobs' = [jobs EXCEPT ![r] = Where(@, [@ EXCEPT !.status = "done"])]
    /\ UNCHANGED <<s2_urls, papers, future_ideas, pc, err, arxiv_items,
                   s2_items, outputs, loop_vars,
                   hist_vars, recur_vars, trend_vars,
                   plan_vars, reraised, log_vars>>

\* the except block, were it to undo what the run wrote
task_fail_Rollback(r) ==
    /\ task[r] = "started"
    /\ pc[r] = "failed"
    /\ task' = [task EXCEPT ![r] = "returned"]
    /\ jobs' = [jobs EXCEPT ![r] = Where(@, MarkFailed(@, err[r]))]
    /\ reraised' = [reraised EXCEPT ![r] = err[r]]
    /\ papers' = <<>>
    /\ UNCHANGED <<s2_urls, future_ideas, pc, err, arxiv_items,
                   s2_items, outputs, loop_vars,
                   hist_vars, recur_vars, trend_vars,
                   plan_vars, results_table, log_vars>>

\* a stage has raised: except Exception as exc marks the job failed with
\* str(exc) and raises exc again
task_fail(r) ==
    /\ task[r] = "started"
    /\ pc[r] = "failed"
    /\ task' = [task EXCEPT ![r] = "returned"]
    /\ jobs' = [jobs EXCEPT ![r] = Where(@, MarkFailed(@, err[r]))]
    /\ reraised' = [reraised EXCEPT ![r] = err[r]]
    /\ UNCHANGED <<s2_urls, papers, future_ideas, pc, err, arxiv_items,
                   s2_items, outputs, loop_vars,
                   hist_vars, recur_vars, trend_vars,
                   plan_vars, results_table, log_vars>>

\* the stages of the graph, in the order of its edges
Stages(r) ==
    \/ fetch_arxiv(r)
    \/ fetch_semantic_scholar(r)
    \/ persist(r)
    \/ summarise_item(r)
    \/ summarise_return(r)
    \/ critic_item(r)
    \/ critic_return(r)
    \/ trend_compute(r)
    \/ trend_persist(r)
    \/ planner_draft(r)
    \/ planner_persist(r)

NextJob ==
    \E r \in Runs :
        \/ pipeline_task(r)
        \/ task_run(r)
        \/ Stages(r)
        \/ task_done(r)
        \/ task_fail(r)

\* the store of before the job: scored items of last week, one short of
\* what the Trend stage asks for
SeedStore ==
    [j \in 1..(min_rows - 1) |->
        [PlanRow(j, 2 * week_days, <<JStr("5"), JStr("8")>>)
            EXCEPT !.embedding = <<j % NumVecs>>]]

\* One job, queued by POST /jobs, on the seeded store.
InitJob ==
    /\ InitGraphLocals
    /\ NoLogs
    /\ NoRecursion
    /\ NoPlanner
    /\ papers = SeedStore
    /\ trends = <<>>
    /\ kmeans = [v \in Vecs |-> v % NumClusters(min_rows)]
    /\ top_k = default_top_k
    /\ pc = [r \in Runs |-> "idle"]
    /\ jobs = [r \in Runs |->
                  [status |-> IF r = 1 THEN "queued" ELSE "none",
                   error |-> None]]
    /\ results_table = <<>>
    /\ reraised = [r \in Runs |-> "none"]
    /\ task = [r \in Runs |-> IF r = 1 THEN "delayed" ELSE "none"]

SpecJob == InitJob /\ [][NextJob]_vars


\* the stage a run is at, by the node of the graph it is in
StageOf(p) ==
    CASE p \in {"fetch_arxiv", "fetch_s2", "persist"} -> "fetch"
      [] p \in {"trend", "trend_write"} -> "trend"
      [] p \in {"planner", "plan_write"} -> "plan"
      [] OTHER -> p

StageOrder ==
    <<"idle", "fetch", "summarise", "critic", "trend", "plan", "done">>
StageRank(s) == CHOOSE j \in DOMAIN StageOrder : StageOrder[j] = s

\* C26: a run goes through fetch, summarise, critic, trend and plan in this
\* order: every step leaves it in the stage it is in, takes it to the next
\* one once that stage has returned, or ends it as failed; it never goes
\* back to a stage or skips one, so a run that is done has been through
\* each stage once.
C26_StagesRunInOrderOnce ==
    [][\A r \in Runs :
          LET a == StageOf(pc[r])
              b == StageOf(pc'[r])
          IN  \/ a = b
              \/ /\ b = "failed"
                 /\ a \notin {"idle", "done"}
              \/ /\ a # "failed"
                 /\ b # "failed"
                 /\ StageRank(b) = StageRank(a) + 1]_vars

\* a job is done whose run fetched, summarised and scored an item, wrote a
\* trends snapshot and drafted a plan
C26_Witness ==
    \E r \in Runs :
        /\ jobs[r].status = "done"
        /\ pc[r] = "done"
        /\ outputs[r] # <<>>
        /\ trends # <<>>
        /\ plans # <<>>

\* C27: the trend and planner nodes leave the payload as the critic node
\* returned it: no step of a run in the Trend or the Planning stage changes
\* its outputs, so the list ResearchGuildGraph.run returns is the critic's.
C27_TrendAndPlanPassThePayload ==
    [][\A r \in Runs :
          StageOf(pc[r]) \in {"trend", "plan"} =>
              outputs'[r] = outputs[r]]_vars

\* a run is done with the critic's items as its payload, after a Trend
\* stage that wrote a snapshot and a Planning stage that wrote a plan
C27_Witness ==
    \E r \in Runs :
        /\ pc[r] = "done"
        /\ outputs[r] # <<>>
        /\ scored[r] # <<>>
        /\ drafted[r]
        /\ jobs[r].status = "running"

\* C28: once a stage of a job has raised, the run stays where it failed (no
\* later stage is entered), the job is never marked done and gets no result
\* row, and when the job has ended its status is failed, its error the
\* text of the exception, and the exception was raised to the worker.
C28_RaisingStageFailsTheJob ==
    \A r \in Runs :
        /\ err[r] # "none" =>
              /\ pc[r] = "failed"
              /\ jobs[r].status \in {"running", "failed"}
              /\ \A j \in DOMAIN results_table : results_table[j].job_id # r
              /\ jobs[r].status = "failed" =>
                    /\ jobs[r].error = err[r]
                    /\ reraised[r] = err[r]
        /\ jobs[r].status = "done" => err[r] = "none" /\ reraised[r] = "none"
        /\ jobs[r].status = "failed" => err[r] # "none"

\* a job has ended as failed after its Trend stage raised
C28_Witness ==
    \E r \in Runs :
        /\ jobs[r].status = "failed"
        /\ jobs[r].error = "ZeroDivisionError"
        /\ reraised[r] = "ZeroDivisionError"
        /\ outputs[r] # <<>>

\* every row of old is in new, with the summary, the scores and the
\* critique it had, and the embedding if it had one
Kept(old, new) ==
    \A j \in DOMAIN old :
        /\ j \in DOMAIN new
        /\ new[j].id = old[j].id
        /\ new[j].summary = old[j].summary
        /\ new[j].score_novelty = old[j].score_novelty
        /\ new[j].score_method = old[j].score_method
        /\ new[j].score_relevance = old[j].score_relevance
        /\ new[j].critique = old[j].critique
        /\ old[j].embedding # <<>> => new[j].embedding = old[j].embedding

\* C29: neither the step at which a stage raises nor the one that marks
\* the job failed takes anything back: every item, summary and score that
\* was in the papers table before it is there after it, and the
\* future_ideas, trends and plans tables are as they were.
C29_FailureRollsNothingBack ==
    [][\A r \in Runs :
          (\/ pc[r] # "failed" /\ pc'[r] = "failed"
           \/ jobs[r].status # "failed" /\ jobs'[r].status = "failed") =>
              /\ Kept(papers, papers')
              /\ future_ideas' = future_ideas
              /\ trends' = trends
              /\ plans' = plans]_vars

\* a job has ended as failed; an item its run fetched is in the store with
\* the summary and the scores the run saved for it
C29_Witness ==
    \E r \in Runs : \E pid \in PaperIds :
        /\ jobs[r].status = "failed"
        /\ summary_writes[pid] > 0
        /\ score_writes[pid] > 0
        /\ pid \in StoredIds(papers)
        /\ RowOf(pid).summary # <<>>
        /\ RowOf(pid).critique # None


\* the run is in its Trend stage, in its Planning stage
InTrend(r) == pc[r] \in {"trend", "trend_write"}
InPlanning(r) == pc[r] \in {"planner", "plan_write"}

\* C33 as stated: no step of a Trend or Planning run changes the papers
\* table.
C33_TrendAndPlanningOnlyRead ==
    [][(\E r \in Runs : InTrend(r) \/ InPlanning(r)) => papers' = papers]_vars

\* the row is as it was, or was summarised without an embedding and has
\* been given one, nothing else of it being changed
SameOrEmbedded(old, new) ==
    \/ new = old
    \/ /\ old.summary # <<>>
       /\ old.embedding = <<>>
       /\ new.embedding # <<>>
       /\ new = [old EXCEPT !.embedding = new.embedding]

\* C33, amended: a Planning run changes no record of the papers table, and
\* a Trend run changes none but by giving an embedding to summarised records
\* that have none; no record is added or removed.
C33_TrendOnlyFillsEmbeddings ==
    [][\A r \in Runs :
          /\ InPlanning(r) => papers' = papers
          /\ InTrend(r) =>
                /\ DOMAIN papers' = DOMAIN papers
                /\ \A j \in DOMAIN papers :
                      SameOrEmbedded(papers[j], papers'[j])]_vars

\* a record fetched by the job has been given its embedding, and the
\* Planning stage has run after that
C33_Witness ==
    \E r \in Runs : \E j \in DOMAIN papers :
        /\ pc[r] = "done"
        /\ papers[j].created_at = Today
        /\ papers[j].embedding # <<>>

\* ------------------------------------------------------------ the admin wipe
\* POST /admin/clear: DELETE FROM papers, trends, plans, jobs, logs, results
\* in one transaction
clear_everything ==
    /\ papers' = <<>>
    /\ trends' = <<>>
    /\ plans' = <<>>
    /\ jobs' = [r \in Runs |-> NoJob]
    /\ results_table' = <<>>
    /\ UNCHANGED <<s2_urls, future_ideas, pc, err, arxiv_items, s2_items,
                   outputs, loop_vars,
                   hist_vars, recur_vars, kmeans, top_k, scored,
                   top_n, chosen, plan_text, drafted, reraised, task,
                   log_vars>>

NextAdmin ==
    \/ NextJob
    \/ clear_everything

\* One job, queued by POST /jobs, and the admin wipe at any moment of it.
SpecAdmin == InitJob /\ [][NextAdmin]_vars

ResultIds == {results_table[j].job_id : j \in DOMAIN results_table}

\* C38: the results table has a row for a job exactly when the jobs table
\* has the row of that job with status done, also when the wipe runs while
\* the job does.
C38_ResultRowIffJobDone ==
    \A r \in Runs : (r \in ResultIds) <=> (jobs[r].status = "done")

\* --------------------------------------------------------------- log queue
MaxQueue == 2       \* log lines waiting in a queue

\* self.format(rec) with the formatter "%(levelname)s | %(message)s", of a
\* record logged by run r
InfoLine(r) == "INFO | run " \o ToString(r)
Sentinel == "__DONE__"

\* run_pipeline up to the call of the graph: with a queue given, a handler
\* that puts every INFO line on it is added to the root logger
run_pipeline(r) ==
    /\ pc[r] = "idle"
    /\ r \notin attached
    /\ attached' = attached \cup {r}
    /\ UNCHANGED <<s2_urls, papers, future_ideas, pc, err, arxiv_items,
                   s2_items, outputs, loop_vars,
                   hist_vars, recur_vars, trend_vars,
                   plan_vars, job_vars, log_q, exiting, seen>>

\* graph.run() inside run_pipeline
pipeline_run(r) ==
    /\ r \in attached
    /\ run(r)

\* a stage of run r logs an INFO line: every handler on the root logger
\* puts it on its queue
emit(r) ==
    /\ pc[r] \notin {"uncalled", "idle", "done", "failed"}
    /\ attached # {}
    /\ \A q \in attached : Len(log_q[q]) < MaxQueue
    /\ log_q' = [q \in Runs |->
                    IF q \in attached THEN Append(log_q[q], InfoLine(r))
                    ELSE log_q[q]]
    /\ UNCHANGED <<s2_urls, papers, future_ideas, pc, err, arxiv_items,
                   s2_items, outputs, loop_vars,
                   hist_vars, recur_vars, trend_vars,
                   plan_vars, job_vars, attached, exiting, seen>>

\* an exit that puts the sentinel only when the graph returned
run_pipeline_exit_OnReturn(r) ==
    /\ r \in attached \ exiting
    /\ pc[r] \in {"done", "failed"}
    /\ log_q' = [log_q EXCEPT
                    ![r] = IF pc[r] = "done" THEN Append(@, Sentinel) ELSE @]
    /\ exiting' = exiting \cup {r}
    /\ UNCHANGED <<s2_urls, papers, future_ideas, pc, err, arxiv_items,
                   s2_items, outputs, loop_vars,
                   hist_vars, recur_vars, trend_vars,
                   plan_vars, job_vars, attached, seen>>

\* the finally block, after the graph returned or raised: the sentinel is
\* put on the queue
run_pipeline_exit(r) ==
    /\ r \in attached \ exiting
    /\ pc[r] \in {"done", "failed"}
    /\ log_q' = [log_q EXCEPT ![r] = Append(@, Sentinel)]
    /\ exiting' = exiting \cup {r}
    /\ UNCHANGED <<s2_urls, papers, future_ideas, pc, err, arxiv_items,
                   s2_items, outputs, loop_vars,
                   hist_vars, recur_vars, trend_vars,
                   plan_vars, job_vars, attached, seen>>

\* and then the handler is removed from the root logger
removeHandler(r) ==
    /\ r \in exiting
    /\ attached' = attached \ {r}
    /\ exiting' = exiting \ {r}
    /\ UNCHANGED <<s2_urls, papers, future_ideas, pc, err, arxiv_items,
                   s2_items, outputs, loop_vars,
                   hist_vars, recur_vars, trend_vars,
                   plan_vars, job_vars, log_q, seen>>

\* the observer's loop: msg = log_q.get_nowait(), done when it is the
\* sentinel
get_nowait(r) ==
    /\ log_q[r] # <<>>
    /\ log_q' = [log_q EXCEPT ![r] = Tail(@)]
    /\ seen' = [seen EXCEPT
                   ![r] = IF Head(log_q[r]) = Sentinel THEN @ + 1 ELSE @]
    /\ UNCHANGED <<s2_urls, papers, future_ideas, pc, err, arxiv_items,
                   s2_items, outputs, loop_vars,
                   hist_vars, recur_vars, trend_vars,
                   plan_vars, job_vars, attached, exiting>>

\* the thread of a run_pipeline call, and the observer of its queue
Worker(r) ==
    \/ run_pipeline(r)
    \/ pipeline_run(r)
    \/ Stages(r)
    \/ run_pipeline_exit(r)
    \/ removeHandler(r)

NextLog ==
    \E r \in Runs :
        \/ Worker(r)
        \/ emit(r)
        \/ get_nowait(r)

\* the seeded store three weeks on: its items are older than days_back
OldStore == [j \in DOMAIN SeedStore |-> [SeedStore[j] EXCEPT !.created_at = 0]]

\* One call of run_pipeline with a queue, on the old store.
InitLog ==
    /\ InitGraphLocals
    /\ NoLogs
    /\ NoRecursion
    /\ NoJobs
    /\ NoPlanner
    /\ papers = OldStore
    /\ trends = <<>>
    /\ kmeans = [v \in Vecs |-> v % NumClusters(min_rows)]
    /\ top_k = default_top_k
    /\ pc = [r \in Runs |-> IF r = 1 THEN "idle" ELSE "uncalled"]

\* The thread of the call keeps running (every request it makes is
\* answered or raises) and the observer keeps polling its queue.
SpecLog ==
    /\ InitLog
    /\ [][NextLog]_vars
    /\ \A r \in Runs : WF_vars(Worker(r)) /\ WF_vars(get_nowait(r))

\* the sentinels on a queue
Sentinels(q) == Len(SelectSeq(q, LAMBDA msg : msg = Sentinel))

MaxChunks == 17

TOKENS_PER_CHUNK == 4000

\* max_out of _llm: the most tokens of an answer
max_out == 256

\* len(ENC.encode("\n\n")), the separator of "\n\n".join
join_tokens == 1

\* the tokens of the stripped answers the oracle gives
AnswerTokens == {0, 1, max_out}

\* the tokens of the texts _pdf_text gives
TextTokens ==
    {n * TOKENS_PER_CHUNK + d :
        n \in 0..(MaxChunks - 1), d \in {1, TOKENS_PER_CHUNK}}

\* every token in one chunk
split_tokens_Whole(toks) == IF toks = 0 THEN <<>> ELSE <<toks>>

\* _split_tokens: a chunk is flushed when it holds max_tok tokens, and what
\* is left at the end makes the last chunk
split_tokens(toks) ==
    [i \in 1..((toks + TOKENS_PER_CHUNK - 1) \div TOKENS_PER_CHUNK) |->
        IF i * TOKENS_PER_CHUNK <= toks
        THEN TOKENS_PER_CHUNK
        ELSE toks % TOKENS_PER_CHUNK]

\* len(ENC.encode(merged)) of merged = "\n\n".join(summaries)
merged_tokens(sums) ==
    IF sums.n = 0 THEN 0 ELSE sums.tokens + (sums.n - 1) * join_tokens

\* if len(chunks) == 1: return _llm(chunks[0])
single_chunk ==
    /\ ~returned
    /\ Len(chunks) = 1
    /\ prompt_tokens' = chunks[1]
    /\ final_calls' = final_calls + 1
    /\ returned' = TRUE
    /\ UNCHANGED <<chunks, lvl, summaries>>

\* one _llm(c) of summaries = [_llm(c) for c in chunks]; the first one of a
\* level follows lvl += 1
summarise_chunk ==
    /\ ~returned
    /\ Len(chunks) # 1
    /\ summaries.n < Len(chunks)
    /\ \E answer \in AnswerTokens :
          summaries' = [n |-> summaries.n + 1,
                        tokens |-> summaries.tokens + answer]
    /\ prompt_tokens' = chunks[summaries.n + 1]
    /\ lvl' = IF summaries.n = 0 THEN lvl + 1 ELSE lvl
    /\ UNCHANGED <<chunks, final_calls, returned>>

\* the merged summaries fit: return _llm(merged)
merge_return ==
    /\ ~returned
    /\ Len(chunks) # 1
    /\ summaries.n = Len(chunks)
    /\ merged_tokens(summaries) < TOKENS_PER_CHUNK
    /\ prompt_tokens' = merged_tokens(summaries)
    /\ final_calls' = final_calls + 1
    /\ returned' = TRUE
    /\ UNCHANGED <<chunks, lvl, summaries>>

\* they do not: chunks = _split_tokens(merged), and the next level
merge_split ==
    /\ ~returned
    /\ Len(chunks) # 1
    /\ summaries.n = Len(chunks)
    /\ merged_tokens(summaries) >= TOKENS_PER_CHUNK
    /\ chunks' = split_tokens(merged_tokens(summaries))
    /\ summaries' = [n |-> 0, tokens |-> 0]
    /\ UNCHANGED <<lvl, prompt_tokens, final_calls, returned>>

recursive_summarise ==
    /\ \/ single_chunk
       \/ summarise_chunk
       \/ merge_return
       \/ merge_split
    /\ UNCHANGED <<s2_urls, papers, future_ideas, pc, err, fetch_vars,
                   outputs, loop_vars, hist_vars, trend_vars, plan_vars,
                   job_vars, log_vars>>

NextRecur == recursive_summarise

\* _recursive_summarise(_split_tokens(full_text)) of a text _pdf_text gave
InitRecur ==
    /\ InitGraphLocals
    /\ NoLogs
    /\ NoJobs
    /\ NoPlanner
    /\ papers = <<>>
    /\ trends = <<>>
    /\ kmeans = [v \in Vecs |-> v % NumClusters(min_rows)]
    /\ top_k = default_top_k
    /\ pc = [r \in Runs |-> "uncalled"]
    /\ \E toks \in TextTokens : chunks = split_tokens(toks)
    /\ lvl = 0
    /\ summaries = [n |-> 0, tokens |-> 0]
    /\ prompt_tokens = 0
    /\ final_calls = 0
    /\ returned = FALSE

\* the function runs on: every oracle call comes back
SpecRecur == InitRecur /\ [][NextRecur]_vars /\ WF_vars(NextRecur)

\* C34: recursive summarisation ends for every text when no answer has more
\* than max_out tokens: every prompt handed to the oracle has at most
\* TOKENS_PER_CHUNK tokens, a level that is followed by another leaves fewer
\* chunks than it had, and the function returns after exactly one call of
\* which it returns the answer, made over at most TOKENS_PER_CHUNK tokens.
C34_RecursionEndsWithinBudget ==
    /\ [](prompt_tokens <= TOKENS_PER_CHUNK)
    /\ [](final_calls = IF returned THEN 1 ELSE 0)
    /\ [][Len(chunks') < Len(chunks) \/ chunks' = chunks]_vars
    /\ <>returned

\* a text of many chunks has been summarised in two levels
C34_Witness == returned /\ lvl = 2 /\ final_calls = 1


\* --------------------------------------------------------- fetch persistence
\* C39: the items of one fetch call are inserted in one transaction: either
\* every one of them gets a row, or the call fails and the papers table is
\* as it was before the call.
C39_PersistIsAllOrNothing ==
    [][\A r \in Runs :
          (pc[r] = "persist" /\ pc'[r] # "persist") =>
             LET new_items == Merge(arxiv_items[r], s2_items[r])
             IN  \/ /\ pc'[r] = "failed"
                    /\ err'[r] = "IntegrityError"
                    /\ papers' = papers
                 \/ /\ pc'[r] # "failed"
                    /\ Len(papers') = Len(papers) + Len(new_items)
                    /\ StoredIds(papers') =
                          StoredIds(papers) \cup PaperIdsOf(new_items)]_vars

\* a fetch call has failed on an item that is not its first, and no row of
\* the items before it is in the table
C39_Witness ==
    \E r \in Runs :
        LET new_items == Merge(arxiv_items[r], s2_items[r])
        IN  /\ pc[r] = "failed"
            /\ err[r] = "IntegrityError"
            /\ Len(new_items) >= 2
            /\ new_items[1].paper_id \notin StoredIds(papers)


\* ------------------------------------------------------ concurrent log queues
\* Calls of run_pipeline in the threads of one process, each with its own
\* queue, whose runs have reached the Planning stage on a store of scored
\* items; the observers have taken what was on the queues so far.
InitLogs ==
    /\ InitGraphLocals
    /\ NoJobs
    /\ NoRecursion
    /\ NoTrend
    /\ log_q = [r \in Runs |-> <<>>]
    /\ attached = Runs
    /\ exiting = {}
    /\ seen = [r \in Runs |-> 0]
    /\ papers = [j \in 1..2 |->
                    PlanRow(j, 2 * week_days, <<JStr("5"), JStr("8")>>)]
    /\ plans = <<>>
    /\ top_n = default_top_n
    /\ chosen = [r \in Runs |-> <<>>]
    /\ plan_text = [r \in Runs |-> None]
    /\ drafted = [r \in Runs |-> FALSE]
    /\ pc = [r \in Runs |-> "planner"]

NextLogs ==
    \E r \in Runs :
        \/ planner_draft(r)
        \/ planner_persist(r)
        \/ emit(r)
        \/ run_pipeline_exit(r)
        \/ removeHandler(r)
        \/ get_nowait(r)

SpecLogs == InitLogs /\ [][NextLogs]_vars

\* C35: the queue of a call holds only lines logged by the run of that call,
\* and '__DONE__' is the last thing put on it: nothing follows the sentinel
\* on the queue, and nothing is put once the observer has taken it.
C35_QueueHoldsOwnLinesThenSentinel ==
    \A q \in Runs :
        /\ \A k \in DOMAIN log_q[q] :
              /\ log_q[q][k] \in {InfoLine(q), Sentinel}
              /\ log_q[q][k] = Sentinel => k = Len(log_q[q])
        /\ seen[q] = 1 => log_q[q] = <<>>


\* ------------------------------------------- pipeline runs and the admin wipe
\* Pipeline runs in the workers of one store, in any interleaving, up to the
\* end of the Critique stage, and the admin wipe at any moment of them.  The
\* first run has reached its Critique stage with what a fetch from the empty
\* store gave it, the others are about to fetch.
InitWipe ==
    /\ s2_urls = [n \in 1..NumDoi |-> IF n % 2 = 1 THEN "url" ELSE ""]
    /\ arxiv_items \in
         {OfRun1(ArxivResults(resp, {})) : resp \in ArxivResponses}
    /\ s2_items \in
         {OfRun1(S2Results(data, {})) : data \in S2Responses(s2_urls)}
    /\ \E f \in [1..Len(Merge(arxiv_items[1], s2_items[1])) -> Summaries] :
         outputs = OfRun1([k \in DOMAIN f |->
                       [Merge(arxiv_items[1], s2_items[1])[k]
                           EXCEPT !.summary = f[k]]])
    /\ papers = SaveAll(InsertAll(<<>>, outputs[1]).tbl, outputs[1])
    /\ future_ideas = <<>>
    /\ pc = [r \in Runs |-> IF r = 1 THEN "critic" ELSE "fetch_arxiv"]
    /\ InitLocals

NextWipe ==
    \/ \E r \in Runs :
          \/ fetch_arxiv(r)
          \/ fetch_semantic_scholar(r)
          \/ persist(r)
          \/ summarise_item(r)
          \/ summarise_return(r)
          \/ critic_item(r)
          \/ critic_return(r)
    \/ clear_everything

SpecWipe == InitWipe /\ [][NextWipe]_vars

\* C36: no record is critiqued or embedded before it is summarised: a record
\* that carries critique scores has a summary of at least min_summary_len
\* characters, and a record with an embedding has a summary that is not
\* empty.
C36_ScoredOrEmbeddedIsSummarised ==
    \A k \in DOMAIN papers :
        /\ Critiqued(papers[k]) => Len(papers[k].summary) >= min_summary_len
        /\ papers[k].embedding # <<>> => papers[k].summary # <<>>


\* ------------------------------------------------------------- orphaned items
\* a row without a summary that no run holds in the list handed to its
\* Summarization stage
Orphan(pid) ==
    /\ \E k \in DOMAIN papers : papers[k].id = pid /\ papers[k].summary = <<>>
    /\ \A r \in Runs :
          pc[r] = "summarise" => pid \notin PaperIdsOf(outputs[r])

\* C37: an item that a run persisted and left without a summary, as a run
\* that aborted before summarising it does, is never handed to the
\* Summarization stage by a later run and its summary stays empty: the later
\* fetch filters it out or fails on its insert.
C37_OrphanIsNeverSummarised ==
    [][\A pid \in PaperIds : Orphan(pid) => Orphan(pid)']_vars

\* a run aborted in its Summarization stage, and the next run failed on the
\* insert of an item the first had left without a summary
C37_Witness ==
    \E pid \in PaperIds :
        /\ Orphan(pid)
        /\ pc[1] = "failed"
        /\ err[1] = "OracleError"
        /\ pc[2] = "failed"
        /\ err[2] = "IntegrityError"

====
